---- MODULE Spec2Model ----
(***************************************************************************)
(* Model of the 808lab audio engine (AudioEngine in src/audio/engine, kept *)
(* in src/src/presets/defaults.ts) and of its React hook.                  *)
(*                                                                         *)
(* Units: times in milliseconds, levels / mixes / velocities / drive in    *)
(* percent, gains of Gain nodes in percent, the master gain in per-mille,  *)
(* thresholds and EQ gains in dB, filter resonance in tenths.              *)
(***************************************************************************)
EXTENDS Integers, Sequences, FiniteSets, TLC

VARIABLES
  eng,          \* the AudioEngine singleton: fields, node settings, connections
  awaiting,     \* number of initialize() calls suspended at `await Tone.start()`
  buildCount,   \* how many times the body of initialize() has built a graph
  disposeCount, \* how many times dispose() has run
  requested,    \* argument of the most recent setEffectsConnected call
  lastOp,       \* the most recent call and its outcome
  secTwice,     \* the last two calls were setEffectsConnected with one argument
  steps,        \* control calls made so far
  mode,         \* which history the behaviour records ("life" or "patch")
  pre,          \* "patch" mode: the engine as it was before the last call
  lastPatch,    \* "patch" mode: the argument of the last update / setParams call
  early,        \* sections patched while the engine had no nodes
  ui,           \* the params state of the useAudioEngine hook
  render,       \* the renderOffline() call: its position, its graph, its buffer
  snap,         \* the object a getParams() call returned
  voice,        \* the envelopes and oscillators of the live voice, as scheduled
  now,          \* Tone.now() in milliseconds
  bay,          \* the CablesManager: registered jacks, connections, auto-connect flag
  wav,          \* an encodeWAV call: its arguments and the bytes it returned
  lib,          \* the usePresets hook: the preset list, localStorage, the last import
  hook          \* the useAudioEngine hook: its flags, suspended calls and timers

vars == <<eng, awaiting, buildCount, disposeCount, requested, lastOp, secTwice, steps,
          mode, pre, lastPatch, early, ui, render, snap, voice, now, bay, wav, lib, hook>>

\* The state outside the engine that a call into the engine leaves alone.
others == <<now, bay, wav, lib, hook>>

\* ------------------------------------------------------------------ bounds
MaxSteps == 3
MaxPatchSteps == 2
MaxAwaiting == 2
MaxRenderSteps == 1
MaxTriggerSteps == 2
MaxTicks == 2
MaxSamples == 3
MaxImports == 3
MaxHookCalls == 3

\* -------------------------------------------------------------- parameters
DEFAULT_PARAMS ==
  [ synth          |-> [note |-> "E1", frequency |-> 412, waveform |-> "sine", velocity |-> 80],
    subOscillator  |-> [enabled |-> FALSE, level |-> 50, octave |-> -1, detune |-> 0],
    noiseLayer     |-> [enabled |-> FALSE, type |-> "white", level |-> 30, attack |-> 1,
                        decay |-> 50, filterFreq |-> 800],
    pitchEnvelope  |-> [startOffset |-> 12, decayTime |-> 150, curve |-> "exponential"],
    ampEnvelope    |-> [attack |-> 1, decay |-> 300, sustain |-> 40, release |-> 500],
    distortion     |-> [drive |-> 20, type |-> "softclip", mix |-> 30, bitDepth |-> 8],
    filter         |-> [type |-> "lowpass", frequency |-> 200, resonance |-> 10],
    filterEnvelope |-> [enabled |-> FALSE, amount |-> 1000, attack |-> 1, decay |-> 200,
                        sustain |-> 30, release |-> 300],
    compressor     |-> [enabled |-> FALSE, threshold |-> -12, ratio |-> 4, attack |-> 3,
                        release |-> 100, makeupGain |-> 0],
    eq             |-> [lowGain |-> 3, midGain |-> 0, midFreq |-> 400, highGain |-> -3],
    reverb         |-> [enabled |-> FALSE, decay |-> 1500, preDelay |-> 10, mix |-> 20],
    limiter        |-> [enabled |-> TRUE, threshold |-> -2],
    masterVolume   |-> -6 ]

loFi808 ==
  [ synth          |-> [note |-> "D1", frequency |-> 367, waveform |-> "sine", velocity |-> 75],
    subOscillator  |-> [enabled |-> FALSE, level |-> 50, octave |-> -1, detune |-> 0],
    noiseLayer     |-> [enabled |-> TRUE, type |-> "pink", level |-> 25, attack |-> 1,
                        decay |-> 40, filterFreq |-> 800],
    pitchEnvelope  |-> [startOffset |-> 8, decayTime |-> 120, curve |-> "exponential"],
    ampEnvelope    |-> [attack |-> 2, decay |-> 400, sustain |-> 35, release |-> 600],
    distortion     |-> [drive |-> 50, type |-> "bitcrush", mix |-> 70, bitDepth |-> 6],
    filter         |-> [type |-> "lowpass", frequency |-> 500, resonance |-> 20],
    filterEnvelope |-> [enabled |-> FALSE, amount |-> 1000, attack |-> 1, decay |-> 200,
                        sustain |-> 30, release |-> 300],
    compressor     |-> [enabled |-> TRUE, threshold |-> -15, ratio |-> 6, attack |-> 5,
                        release |-> 100, makeupGain |-> 3],
    eq             |-> [lowGain |-> 2, midGain |-> 4, midFreq |-> 600, highGain |-> -8],
    reverb         |-> [enabled |-> TRUE, decay |-> 1000, preDelay |-> 10, mix |-> 10],
    limiter        |-> [enabled |-> TRUE, threshold |-> -6],
    masterVolume   |-> -8 ]

\* The presets a loadPreset / reset call may pass to setParams.
Presets == {DEFAULT_PARAMS, loFi808}

Sections == {"synth", "subOscillator", "noiseLayer", "pitchEnvelope", "ampEnvelope",
             "distortion", "filter", "filterEnvelope", "compressor", "eq", "reverb",
             "limiter"}

\* A partial patch is a record holding only the supplied fields.
Has(patch, f) == f \in DOMAIN patch

\* { ...old, ...patch }
Spread(old, patch) ==
  [f \in (DOMAIN old) \cup (DOMAIN patch) |-> IF f \in DOMAIN patch THEN patch[f] ELSE old[f]]

Max(a, b) == IF a >= b THEN a ELSE b
Min(a, b) == IF a <= b THEN a ELSE b

\* Tone.dbToGain for the integer dB values 0 .. -12, in per-mille; lower
\* volumes are clamped to the -12 dB entry of the table.
GainTable == <<1000, 891, 794, 708, 631, 562, 501, 447, 398, 355, 316, 282, 251>>
DbToGain(db) == IF db >= 0 THEN 1000 ELSE GainTable[Min(-db, 12) + 1]

\* Math.max(1, Math.round(drive * 50)) with drive in percent.
ChebyshevOrder(drive) == Max(1, (drive + 1) \div 2)

\* ------------------------------------------------------- signal graph nodes
\* Octave range of the filter envelope, log2(num / den), kept as the ratio.
Octaves(num, den) == [num |-> num, den |-> den]

\* Math.max(0.1, octaves): 2^0.1 = 1.0718.
FloorOctaves(o) == IF o.num * 10000 < 10718 * o.den THEN Octaves(10718, 10000) ELSE o

\* The settings of the nodes while the node references are null.
NullNode ==
  [ synthWaveform |-> "none", synthEnv |-> [attack |-> 0, decay |-> 0, sustain |-> 0, release |-> 0],
    subEnv |-> [attack |-> 0, decay |-> 0, sustain |-> 0, release |-> 0],
    subGain |-> 0, subDetune |-> 0,
    noiseType |-> "none", noiseFilterFreq |-> 0, noiseAttack |-> 0, noiseDecay |-> 0, noiseGain |-> 0,
    order |-> 0, bits |-> 0, curve |-> [kind |-> "none", drive |-> 0],
    distortionGain |-> 0, dryGain |-> 0,
    filterType |-> "none", filterFreq |-> 0, filterQ |-> 0,
    fenv |-> [attack |-> 0, decay |-> 0, sustain |-> 0, release |-> 0, baseFrequency |-> 0,
              octaves |-> Octaves(1, 1)],
    compThreshold |-> 0, compRatio |-> 0, compAttack |-> 0, compRelease |-> 0,
    eqLow |-> 0, eqMid |-> 0, eqHigh |-> 0,
    reverbDecay |-> 0, reverbPreDelay |-> 0, reverbDry |-> 0, reverbWet |-> 0,
    limiterThreshold |-> 0, gain |-> 0, bypassGain |-> 0 ]

\* The node settings the constructors of initialize() produce from this.params.
InitNode(p) ==
  [ synthWaveform |-> p.synth.waveform,
    synthEnv |-> [attack |-> p.ampEnvelope.attack, decay |-> p.ampEnvelope.decay,
                  sustain |-> p.ampEnvelope.sustain, release |-> p.ampEnvelope.release],
    subEnv |-> [attack |-> p.ampEnvelope.attack, decay |-> p.ampEnvelope.decay,
                sustain |-> p.ampEnvelope.sustain, release |-> p.ampEnvelope.release],
    subGain |-> IF p.subOscillator.enabled THEN p.subOscillator.level ELSE 0,
    subDetune |-> 0,
    noiseType |-> p.noiseLayer.type,
    noiseFilterFreq |-> p.noiseLayer.filterFreq,
    noiseAttack |-> p.noiseLayer.attack,
    noiseDecay |-> p.noiseLayer.decay,
    noiseGain |-> IF p.noiseLayer.enabled THEN p.noiseLayer.level ELSE 0,
    order |-> ChebyshevOrder(p.distortion.drive),
    bits |-> IF p.distortion.bitDepth # 0 THEN p.distortion.bitDepth ELSE 8,
    curve |-> [kind |-> "tanh", drive |-> p.distortion.drive],
    distortionGain |-> p.distortion.mix,
    dryGain |-> 100 - p.distortion.mix,
    filterType |-> p.filter.type,
    filterFreq |-> p.filter.frequency,
    filterQ |-> p.filter.resonance,
    fenv |-> [attack |-> p.filterEnvelope.attack, decay |-> p.filterEnvelope.decay,
              sustain |-> p.filterEnvelope.sustain, release |-> p.filterEnvelope.release,
              baseFrequency |-> p.filter.frequency,
              octaves |-> Octaves(p.filter.frequency + p.filterEnvelope.amount, p.filter.frequency)],
    compThreshold |-> p.compressor.threshold,
    compRatio |-> p.compressor.ratio,
    compAttack |-> p.compressor.attack,
    compRelease |-> p.compressor.release,
    eqLow |-> p.eq.lowGain, eqMid |-> p.eq.midGain, eqHigh |-> p.eq.highGain,
    reverbDecay |-> p.reverb.decay,
    reverbPreDelay |-> p.reverb.preDelay,
    reverbDry |-> 100 - p.reverb.mix,
    reverbWet |-> IF p.reverb.enabled THEN p.reverb.mix ELSE 0,
    limiterThreshold |-> p.limiter.threshold,
    gain |-> DbToGain(p.masterVolume),
    bypassGain |-> 100 ]

\* node.connect(dst): a connection is a pair; connecting twice is one connection.
Connect(edges, src, dst) == edges \cup {<<src, dst>>}

\* node.disconnect(): drops every outgoing connection of the node.
Disconnect(edges, src) == {c \in edges : c[1] # src}

\* node.disconnect(dst)
DisconnectFrom(edges, src, dst) == edges \ {<<src, dst>>}

\* a.chain(b, c, d)
RECURSIVE Chain(_, _)
Chain(edges, nodes) ==
  IF Len(nodes) < 2 THEN edges
  ELSE Chain(Connect(edges, nodes[1], nodes[2]), Tail(nodes))

\* The engine as constructed: every node reference null, default parameters.
NewEngine ==
  [ params |-> DEFAULT_PARAMS,
    isInitialized |-> FALSE,
    isInitializing |-> FALSE,
    effectsConnected |-> FALSE,
    triggerTime |-> 0,
    hasNodes |-> FALSE,
    node |-> NullNode,
    edges |-> {} ]

\* ------------------------------------------------------------ the router
\* setEffectsConnected with the bypass gain left alone when the effects are
\* connected: the bypass path stays open next to the effects chain.
setEffectsConnected_keepBypass(e, connected) ==
  LET e1 == [e EXCEPT !.effectsConnected = connected] IN
  IF e1.isInitialized /\ e1.hasNodes
  THEN IF connected
       THEN LET d  == {c \in e1.edges : c[1] \notin {"distortionMix", "eq"}}
                c1 == d \cup {<<"distortionMix", "filter">>, <<"filter", "compressor">>,
                              <<"compressor", "eq">>, <<"eq", "reverbDry">>, <<"eq", "reverb">>}
            IN  [e1 EXCEPT !.edges = c1]
       ELSE [e1 EXCEPT !.edges = {c \in e1.edges : c[1] # "distortionMix"},
                       !.node.bypassGain = 100]
  ELSE e1

\* setEffectsConnected written as a toggle of the stored flag.
setEffectsConnected_toggle(e, connected) ==
  LET on == ~e.effectsConnected
      e1 == [e EXCEPT !.effectsConnected = on] IN
  IF e1.isInitialized /\ e1.hasNodes
  THEN IF on
       THEN LET d  == {c \in e1.edges : c[1] \notin {"distortionMix", "eq"}}
                c1 == d \cup {<<"distortionMix", "filter">>, <<"filter", "compressor">>,
                              <<"compressor", "eq">>, <<"eq", "reverbDry">>, <<"eq", "reverb">>}
            IN  [e1 EXCEPT !.edges = c1, !.node.bypassGain = 0]
       ELSE [e1 EXCEPT !.edges = {c \in e1.edges : c[1] # "distortionMix"},
                       !.node.bypassGain = 100]
  ELSE e1

setEffectsConnected(e, connected) ==
  LET e1 == [e EXCEPT !.effectsConnected = connected] IN
  IF e1.isInitialized /\ e1.hasNodes
  THEN IF connected
       THEN LET d  == Disconnect(Disconnect(e1.edges, "distortionMix"), "eq")
                c1 == Chain(d, <<"distortionMix", "filter", "compressor", "eq">>)
                c2 == Connect(Connect(c1, "eq", "reverbDry"), "eq", "reverb")
            IN  [e1 EXCEPT !.edges = c2, !.node.bypassGain = 0]
       ELSE [e1 EXCEPT !.edges = Disconnect(e1.edges, "distortionMix"),
                       !.node.bypassGain = 100]
  ELSE e1

Shapers == {"distortion", "bitcrusher", "waveshaper"}

WetPath(edges, shaper) ==
  Connect(Connect(Connect(edges, "oscMix", shaper), shaper, "distortionGain"),
          "distortionGain", "distortionMix")

\* connectDistortionType without the three disconnect() calls.
connectDistortionType_keepOld(e, type) ==
  IF ~e.hasNodes THEN e
  ELSE LET d == e.edges
           drive == e.params.distortion.drive
       IN  CASE type = "bitcrush" ->
                  [e EXCEPT !.edges = WetPath(d, "bitcrusher")]
             [] type \in {"tape", "waveshaper", "hardclip"} ->
                  [e EXCEPT !.edges = WetPath(d, "waveshaper"),
                            !.node.curve = [kind |-> type, drive |-> drive]]
             [] OTHER ->
                  [e EXCEPT !.edges = WetPath(d, "distortion")]

connectDistortionType(e, type) ==
  IF ~e.hasNodes THEN e
  ELSE LET d == {c \in e.edges : c[1] \notin Shapers}
           drive == e.params.distortion.drive
       IN  CASE type = "bitcrush" ->
                  [e EXCEPT !.edges = WetPath(d, "bitcrusher")]
             [] type \in {"tape", "waveshaper", "hardclip"} ->
                  [e EXCEPT !.edges = WetPath(d, "waveshaper"),
                            !.node.curve = [kind |-> type, drive |-> drive]]
             [] OTHER ->
                  [e EXCEPT !.edges = WetPath(d, "distortion")]

\* ------------------------------------------------- per-section update calls
updateSynthParams(e, p) ==
  LET e1 == [e EXCEPT !.params.synth = Spread(e.params.synth, p)] IN
  IF e1.hasNodes /\ Has(p, "waveform")
  THEN [e1 EXCEPT !.node.synthWaveform = p.waveform]
  ELSE e1

updatePitchEnvelope(e, p) ==
  [e EXCEPT !.params.pitchEnvelope = Spread(e.params.pitchEnvelope, p)]

updateAmpEnvelope(e, p) ==
  LET e1 == [e EXCEPT !.params.ampEnvelope = Spread(e.params.ampEnvelope, p)]
      a  == e1.params.ampEnvelope
  IN  IF e1.hasNodes
      THEN [e1 EXCEPT !.node.synthEnv = [attack |-> a.attack, decay |-> a.decay,
                                         sustain |-> a.sustain, release |-> a.release]]
      ELSE e1

updateDistortion(e, p) ==
  LET e1 == [e EXCEPT !.params.distortion = Spread(e.params.distortion, p)]
      e2 == IF Has(p, "type") THEN connectDistortionType(e1, p.type) ELSE e1
      e3 == IF e2.hasNodes /\ Has(p, "drive")
            THEN [e2 EXCEPT !.node.order = ChebyshevOrder(p.drive)] ELSE e2
      e4 == IF e3.hasNodes /\ Has(p, "bitDepth")
            THEN [e3 EXCEPT !.node.bits = p.bitDepth] ELSE e3
      e5 == IF Has(p, "drive") /\ e4.params.distortion.type \notin {"softclip", "bitcrush"}
            THEN connectDistortionType(e4, e4.params.distortion.type) ELSE e4
  IN  IF Has(p, "mix") /\ e5.hasNodes
      THEN [e5 EXCEPT !.node.distortionGain = p.mix, !.node.dryGain = 100 - p.mix]
      ELSE e5

updateFilter(e, p) ==
  LET e1 == [e EXCEPT !.params.filter = Spread(e.params.filter, p)] IN
  IF e1.hasNodes
  THEN [e1 EXCEPT !.node.filterType = IF Has(p, "type") THEN p.type ELSE @,
                  !.node.filterFreq = IF Has(p, "frequency") THEN p.frequency ELSE @,
                  !.node.filterQ    = IF Has(p, "resonance") THEN p.resonance ELSE @]
  ELSE e1

\* updateCompressor merging the patch into the default section instead of the
\* current one: the fields the patch leaves out fall back to their defaults.
updateCompressor_fromDefaults(e, p) ==
  LET e1 == [e EXCEPT !.params.compressor = Spread(DEFAULT_PARAMS.compressor, p)]
      c  == e1.params.compressor
  IN  IF e1.hasNodes
      THEN [e1 EXCEPT !.node.compRatio =
                          IF Has(p, "enabled") \/ Has(p, "ratio")
                          THEN (IF c.enabled THEN c.ratio ELSE 1) ELSE @,
                      !.node.compThreshold = IF Has(p, "threshold") THEN c.threshold ELSE @,
                      !.node.compAttack    = IF Has(p, "attack") THEN c.attack ELSE @,
                      !.node.compRelease   = IF Has(p, "release") THEN c.release ELSE @]
      ELSE e1

updateCompressor(e, p) ==
  LET e1 == [e EXCEPT !.params.compressor = Spread(e.params.compressor, p)]
      c  == e1.params.compressor
  IN  IF e1.hasNodes
      THEN [e1 EXCEPT !.node.compRatio =
                          IF Has(p, "enabled") \/ Has(p, "ratio")
                          THEN (IF c.enabled THEN c.ratio ELSE 1) ELSE @,
                      !.node.compThreshold = IF Has(p, "threshold") THEN c.threshold ELSE @,
                      !.node.compAttack    = IF Has(p, "attack") THEN c.attack ELSE @,
                      !.node.compRelease   = IF Has(p, "release") THEN c.release ELSE @]
      ELSE e1

updateEQ(e, p) ==
  LET e1 == [e EXCEPT !.params.eq = Spread(e.params.eq, p)] IN
  IF e1.hasNodes
  THEN [e1 EXCEPT !.node.eqLow  = IF Has(p, "lowGain") THEN p.lowGain ELSE @,
                  !.node.eqMid  = IF Has(p, "midGain") THEN p.midGain ELSE @,
                  !.node.eqHigh = IF Has(p, "highGain") THEN p.highGain ELSE @]
  ELSE e1

updateReverb(e, p) ==
  LET e1 == [e EXCEPT !.params.reverb = Spread(e.params.reverb, p)]
      r  == e1.params.reverb
      e2 == IF e1.hasNodes
            THEN [e1 EXCEPT !.node.reverbDecay = IF Has(p, "decay") THEN p.decay ELSE @,
                            !.node.reverbPreDelay = IF Has(p, "preDelay") THEN p.preDelay ELSE @]
            ELSE e1
  IN  IF (Has(p, "mix") \/ Has(p, "enabled")) /\ e2.hasNodes
      THEN [e2 EXCEPT !.node.reverbWet = IF r.enabled THEN r.mix ELSE 0,
                      !.node.reverbDry = 100 - (IF r.enabled THEN r.mix ELSE 0)]
      ELSE e2

\* updateLimiter without the two disconnect() calls before it reconnects.
updateLimiter_keepRoute(e, p) ==
  LET e1 == [e EXCEPT !.params.limiter = Spread(e.params.limiter, p)]
      e2 == IF e1.hasNodes /\ Has(p, "threshold")
            THEN [e1 EXCEPT !.node.limiterThreshold = p.threshold] ELSE e1
  IN  IF Has(p, "enabled") /\ e2.hasNodes
      THEN LET d == e2.edges IN
           IF p.enabled
           THEN [e2 EXCEPT !.edges = Connect(Connect(d, "reverbMix", "limiter"), "limiter", "gain")]
           ELSE [e2 EXCEPT !.edges = Connect(d, "reverbMix", "gain")]
      ELSE e2

updateLimiter(e, p) ==
  LET e1 == [e EXCEPT !.params.limiter = Spread(e.params.limiter, p)]
      e2 == IF e1.hasNodes /\ Has(p, "threshold")
            THEN [e1 EXCEPT !.node.limiterThreshold = p.threshold] ELSE e1
  IN  IF Has(p, "enabled") /\ e2.hasNodes
      THEN LET d == Disconnect(Disconnect(e2.edges, "reverbMix"), "limiter") IN
           IF p.enabled
           THEN [e2 EXCEPT !.edges = Connect(Connect(d, "reverbMix", "limiter"), "limiter", "gain")]
           ELSE [e2 EXCEPT !.edges = Connect(d, "reverbMix", "gain")]
      ELSE e2

\* updateSubOscillator writing the level to the gain whatever `enabled` is.
updateSubOscillator_levelOnly(e, p) ==
  LET e1 == [e EXCEPT !.params.subOscillator = Spread(e.params.subOscillator, p)]
      s  == e1.params.subOscillator
  IN  IF e1.hasNodes
      THEN [e1 EXCEPT !.node.subGain = s.level,
                      !.node.subDetune = IF Has(p, "detune") THEN p.detune ELSE @]
      ELSE e1

updateSubOscillator(e, p) ==
  LET e1 == [e EXCEPT !.params.subOscillator = Spread(e.params.subOscillator, p)]
      s  == e1.params.subOscillator
  IN  IF e1.hasNodes
      THEN [e1 EXCEPT !.node.subGain = IF s.enabled THEN s.level ELSE 0,
                      !.node.subDetune = IF Has(p, "detune") THEN p.detune ELSE @]
      ELSE e1

updateNoiseLayer(e, p) ==
  LET e1 == [e EXCEPT !.params.noiseLayer = Spread(e.params.noiseLayer, p)]
      n  == e1.params.noiseLayer
  IN  IF e1.hasNodes
      THEN [e1 EXCEPT !.node.noiseType = IF Has(p, "type") THEN p.type ELSE @,
                      !.node.noiseFilterFreq = IF Has(p, "filterFreq") THEN p.filterFreq ELSE @,
                      !.node.noiseAttack = IF Has(p, "attack") THEN p.attack ELSE @,
                      !.node.noiseDecay = IF Has(p, "decay") THEN p.decay ELSE @,
                      !.node.noiseGain = IF n.enabled THEN n.level ELSE 0]
      ELSE e1

updateFilterEnvelope(e, p) ==
  LET e1 == [e EXCEPT !.params.filterEnvelope = Spread(e.params.filterEnvelope, p)]
      base == e1.params.filter.frequency
      e2 == IF e1.hasNodes
            THEN [e1 EXCEPT !.node.fenv.attack  = IF Has(p, "attack") THEN p.attack ELSE @,
                            !.node.fenv.decay   = IF Has(p, "decay") THEN p.decay ELSE @,
                            !.node.fenv.sustain = IF Has(p, "sustain") THEN p.sustain ELSE @,
                            !.node.fenv.release = IF Has(p, "release") THEN p.release ELSE @,
                            !.node.fenv.octaves = IF Has(p, "amount")
                                                  THEN FloorOctaves(Octaves(base + p.amount, base))
                                                  ELSE @]
            ELSE e1
  IN  IF Has(p, "enabled") /\ e2.hasNodes
      THEN IF p.enabled
           THEN [e2 EXCEPT !.edges = Connect(e2.edges, "filterEnvelope", "filter.frequency")]
           ELSE [e2 EXCEPT !.edges = DisconnectFrom(e2.edges, "filterEnvelope", "filter.frequency"),
                           !.node.filterFreq = e2.params.filter.frequency]
      ELSE e2

updateMasterVolume(e, db) ==
  LET e1 == [e EXCEPT !.params.masterVolume = db] IN
  IF e1.hasNodes THEN [e1 EXCEPT !.node.gain = DbToGain(db)] ELSE e1

getParams(e) == e.params

setParams(e, p) ==
  LET e0  == [e EXCEPT !.params = p]
      e1  == updateSynthParams(e0, p.synth)
      e2  == updateSubOscillator(e1, p.subOscillator)
      e3  == updateNoiseLayer(e2, p.noiseLayer)
      e4  == updatePitchEnvelope(e3, p.pitchEnvelope)
      e5  == updateAmpEnvelope(e4, p.ampEnvelope)
      e6  == updateDistortion(e5, p.distortion)
      e7  == updateFilter(e6, p.filter)
      e8  == updateFilterEnvelope(e7, p.filterEnvelope)
      e9  == updateCompressor(e8, p.compressor)
      e10 == updateEQ(e9, p.eq)
      e11 == updateReverb(e10, p.reverb)
      e12 == updateLimiter(e11, p.limiter)
      e13 == updateMasterVolume(e12, p.masterVolume)
  IN  IF e13.effectsConnected THEN setEffectsConnected(e13, TRUE) ELSE e13

\* ------------------------------------------------------------ life cycle
\* The connections initialize() makes before it routes the distortion type.
VoiceEdges ==
  { <<"noise", "noiseFilter">>, <<"noiseFilter", "noiseEnvelope">>,
    <<"noiseEnvelope", "noiseGain">>, <<"synth", "oscMix">>, <<"subSynth", "subGain">>,
    <<"subGain", "oscMix">>, <<"noiseGain", "oscMix">> }

\* initialize() from the line after `await Tone.start()` to its end.
initializeBody(e) ==
  LET p  == e.params
      e1 == [e EXCEPT !.hasNodes = TRUE,
                      !.node = InitNode(p),
                      !.edges = VoiceEdges \cup
                                (IF p.filterEnvelope.enabled
                                 THEN {<<"filterEnvelope", "filter.frequency">>} ELSE {})]
      e2 == connectDistortionType(e1, p.distortion.type)
      g1 == Chain(e2.edges, <<"oscMix", "dryGain", "distortionMix">>)
      g2 == Chain(g1, <<"distortionMix", "filter", "compressor", "eq">>)
      g3 == g2 \cup { <<"eq", "reverbDry">>, <<"eq", "reverb">>, <<"reverb", "reverbWet">>,
                      <<"reverbDry", "reverbMix">>, <<"reverbWet", "reverbMix">> }
      g4 == IF p.limiter.enabled
            THEN Chain(g3, <<"reverbMix", "limiter", "gain">>)
            ELSE Connect(g3, "reverbMix", "gain")
      g5 == Chain(g4, <<"oscMix", "bypassGain", "gain">>)
      g6 == g5 \cup { <<"gain", "analyser">>, <<"gain", "fftAnalyser">>,
                      <<"analyser", "destination">> }
      e3 == [e2 EXCEPT !.edges = g6, !.isInitialized = TRUE]
  IN  setEffectsConnected(e3, e3.effectsConnected)

\* The guard without the in-flight flag.
initializeGuard_noFlag(e) == ~e.isInitialized

\* The guard at the top of initialize().
initializeGuard(e) == ~(e.isInitialized \/ e.isInitializing)

dispose(e) ==
  [e EXCEPT !.hasNodes = FALSE, !.node = NullNode, !.edges = {},
            !.isInitialized = FALSE, !.isInitializing = FALSE, !.effectsConnected = FALSE]

\* ------------------------------------------------------------ the trigger
\* A Tone.Synth as trigger() drives it: when its envelope was last attacked
\* and at which velocity, when the release of that note is scheduled, and the
\* start and stop events of its oscillator.  -1 stands for "no such event".
NewSynthVoice ==
  [attackAt |-> -1, releaseAt |-> -1, velocity |-> 0, oscStart |-> -1, oscStop |-> -1]

\* The voices of a freshly built graph.
NewVoice ==
  [ synth |-> NewSynthVoice, subSynth |-> NewSynthVoice, noiseAt |-> -1, filterAt |-> -1,
    rampTo |-> 0, threw |-> FALSE ]

\* The state of the oscillator source at time t is "started".
OscStarted(v, t) == v.oscStart >= 0 /\ v.oscStart <= t /\ (v.oscStop < 0 \/ t < v.oscStop)

\* oscillator.start(t) on a started source restarts it and requires t to be
\* strictly greater than the previous start time; it throws otherwise.
StartThrows(v, t) == OscStarted(v, t) /\ ~(t > v.oscStart)

\* Envelope.triggerAttack(t, velocity): the ramps scheduled from t onward,
\* a pending release among them, are cancelled and the attack starts at t.
envelopeTriggerAttack(v, t, velocity) ==
  [v EXCEPT !.attackAt = t, !.releaseAt = -1, !.velocity = velocity]

\* Synth.triggerAttack(freq, t, velocity) when oscillator.start(t) succeeds.
synthTriggerAttack(v, env, t, velocity) ==
  [envelopeTriggerAttack(v, t, velocity) EXCEPT
     !.oscStart = t,
     !.oscStop = IF env.sustain = 0 THEN t + env.attack + env.decay ELSE -1]

\* Synth.triggerRelease(t): the envelope releases at t when its value there
\* is above zero, and the oscillator stops when the release has run out.
synthTriggerRelease(v, env, t) ==
  [v EXCEPT !.releaseAt = IF v.velocity > 0 THEN t ELSE @,
            !.oscStop = IF OscStarted(v, t + env.release) THEN t + env.release ELSE @]

\* trigger() at Tone.now() = t.  A throw of synth.triggerAttack leaves the
\* method after the envelope attack, before any release is scheduled.
trigger(e, v, t) ==
  IF ~e.hasNodes \/ ~e.isInitialized
  THEN [eng |-> e, voice |-> [v EXCEPT !.threw = FALSE]]
  ELSE
    LET p        == e.params
        env      == p.ampEnvelope
        e1       == [e EXCEPT !.triggerTime = t]
        duration == env.attack + env.decay
        main     == synthTriggerRelease(synthTriggerAttack(v.synth, env, t, p.synth.velocity),
                                        env, t + duration)
        sub      == synthTriggerRelease(synthTriggerAttack(v.subSynth, env, t, p.synth.velocity),
                                        env, t + duration)
    IN  IF StartThrows(v.synth, t)
        THEN [eng |-> e1,
              voice |-> [v EXCEPT !.synth = envelopeTriggerAttack(v.synth, t, p.synth.velocity),
                                  !.threw = TRUE]]
        ELSE IF p.subOscillator.enabled /\ StartThrows(v.subSynth, t)
        THEN [eng |-> e1,
              voice |-> [v EXCEPT !.synth = main,
                                  !.subSynth = envelopeTriggerAttack(v.subSynth, t, p.synth.velocity),
                                  !.rampTo = p.synth.frequency,
                                  !.threw = TRUE]]
        ELSE [eng |-> e1,
              voice |-> [v EXCEPT !.synth = main,
                                  !.subSynth = IF p.subOscillator.enabled THEN sub ELSE @,
                                  !.noiseAt = IF p.noiseLayer.enabled THEN t ELSE @,
                                  !.filterAt = IF p.filterEnvelope.enabled THEN t ELSE @,
                                  !.rampTo = p.synth.frequency,
                                  !.threw = FALSE]]

\* ---------------------------------------------------------- the patch bay
\* The jacks a window can register: the two of the application (SynthWindow,
\* EffectsWindow) and one more of each type.
JackIds == {"synth-output", "effects-input", "aux-output", "aux-input"}

JackType(id) == IF id \in {"synth-output", "aux-output"} THEN "output" ELSE "input"

\* A connection; its id is `${from}-${to}`.
Conn(outputId, inputId) == [from |-> outputId, to |-> inputId]

\* The manager as constructed.  autoConnected counts the connections that
\* tryAutoConnect made, bothSeen records that both application jacks have
\* been registered at the same time, replaced that the last cable dropped
\* on a jack took the place of another one.
NewBay ==
  [ jacks |-> {}, connections |-> {}, autoConnectPending |-> TRUE,
    autoConnected |-> 0, bothSeen |-> FALSE, replaced |-> FALSE ]

OutputOf(fromId, toId) == IF JackType(fromId) = "output" THEN fromId ELSE toId
InputOf(fromId, toId) == IF JackType(fromId) = "output" THEN toId ELSE fromId

\* connect(fromId, toId) gets past its early returns and adds a connection.
Connects(b, fromId, toId) ==
  /\ fromId \in b.jacks /\ toId \in b.jacks
  /\ JackType(fromId) # JackType(toId)
  /\ Conn(OutputOf(fromId, toId), InputOf(fromId, toId)) \notin b.connections

\* connect that keeps the connection the input already has.
connect_noReplace(b, fromId, toId) ==
  IF Connects(b, fromId, toId)
  THEN [b EXCEPT !.connections =
          @ \cup {Conn(OutputOf(fromId, toId), InputOf(fromId, toId))}]
  ELSE b

connect(b, fromId, toId) ==
  IF Connects(b, fromId, toId)
  THEN [b EXCEPT !.connections =
          {c \in @ : c.to # InputOf(fromId, toId)}
            \cup {Conn(OutputOf(fromId, toId), InputOf(fromId, toId))}]
  ELSE b

disconnect(b, c) == [b EXCEPT !.connections = @ \ {c}]

hasEffectsConnection(b) == Conn("synth-output", "effects-input") \in b.connections

isConnected(b, jackId) == \E c \in b.connections : c.from = jackId \/ c.to = jackId

\* tryAutoConnect that never clears autoConnectPending.
tryAutoConnect_keepPending(b) ==
  IF ~b.autoConnectPending THEN b
  ELSE IF "synth-output" \in b.jacks /\ "effects-input" \in b.jacks
       THEN [connect(b, "synth-output", "effects-input") EXCEPT
               !.autoConnected = IF Connects(b, "synth-output", "effects-input")
                                 THEN @ + 1 ELSE @]
       ELSE b

tryAutoConnect(b) ==
  IF ~b.autoConnectPending THEN b
  ELSE IF "synth-output" \in b.jacks /\ "effects-input" \in b.jacks
       THEN [connect(b, "synth-output", "effects-input") EXCEPT
               !.autoConnectPending = FALSE,
               !.autoConnected = IF Connects(b, "synth-output", "effects-input")
                                 THEN @ + 1 ELSE @]
       ELSE b

registerJack(b, id) ==
  LET b1 == [b EXCEPT !.jacks = @ \cup {id}] IN
  [tryAutoConnect(b1) EXCEPT
     !.bothSeen = @ \/ {"synth-output", "effects-input"} \subseteq b1.jacks]

unregisterJack(b, id) == [b EXCEPT !.jacks = @ \ {id}]

\* ------------------------------------------------------------ WAV export
\* Samples are in per-mille of full scale.  All values written below are
\* under 2^31, the range in which setUint32 writes its argument unchanged.
numChannels == 1
bitsPerSample == 16
bytesPerSample == bitsPerSample \div 8
blockAlign == numChannels * bytesPerSample

\* dataSize with one byte counted per sample.
DataSize_oneByte(samples) == Len(samples)

\* samples.length * bytesPerSample
DataSize(samples) == Len(samples) * bytesPerSample

\* writeString: one byte per character code.
WriteString(str) ==
  CASE str = "RIFF" -> <<82, 73, 70, 70>>
    [] str = "WAVE" -> <<87, 65, 86, 69>>
    [] str = "fmt " -> <<102, 109, 116, 32>>
    [] str = "data" -> <<100, 97, 116, 97>>

\* view.setUint32(offset, n, true) and view.setUint16(offset, n, true)
SetUint32(n) == <<n % 256, (n \div 256) % 256, (n \div 65536) % 256, (n \div 16777216) % 256>>
SetUint16(n) == <<n % 256, (n \div 256) % 256>>

\* view.setInt16(offset, x, true) of the number num / 1000: the fraction is
\* dropped toward zero and the two's complement is written low byte first.
SetInt16(num) ==
  LET int == IF num >= 0 THEN num \div 1000 ELSE -((-num) \div 1000)
  IN  SetUint16((int + 65536) % 65536)

\* Math.max(-1, Math.min(1, sample)), then sample * 0x8000 or sample * 0x7fff.
SampleBytes(sample) ==
  LET clamped == Max(-1000, Min(1000, sample))
  IN  SetInt16(IF clamped < 0 THEN clamped * 32768 ELSE clamped * 32767)

RECURSIVE WriteSamples(_)
WriteSamples(samples) ==
  IF samples = <<>> THEN <<>>
  ELSE SampleBytes(Head(samples)) \o WriteSamples(Tail(samples))

\* The bytes of the Blob encodeWAV(samples, sampleRate) returns.
encodeWAV(samples, sampleRate) ==
  LET byteRate == sampleRate * blockAlign
      dataSize == DataSize(samples)
  IN  WriteString("RIFF") \o SetUint32(36 + dataSize) \o WriteString("WAVE")
      \o WriteString("fmt ") \o SetUint32(16) \o SetUint16(1) \o SetUint16(numChannels)
      \o SetUint32(sampleRate) \o SetUint32(byteRate) \o SetUint16(blockAlign)
      \o SetUint16(bitsPerSample)
      \o WriteString("data") \o SetUint32(dataSize)
      \o WriteSamples(samples)

NoWav == [samples |-> <<>>, sampleRate |-> 0, bytes |-> <<>>, done |-> FALSE]

\* ------------------------------------------------------- offline rendering
\* The nodes and connections the Tone.Offline callback of renderOffline()
\* builds from `params` and `effectsConnected`, and the voices it triggers.
renderGraph(p, effectsConnected) ==
  LET voiceNodes ==
        [ synthWaveform |-> p.synth.waveform,
          synthEnv |-> [attack |-> p.ampEnvelope.attack, decay |-> p.ampEnvelope.decay,
                        sustain |-> p.ampEnvelope.sustain, release |-> p.ampEnvelope.release],
          subEnv |-> [attack |-> p.ampEnvelope.attack, decay |-> p.ampEnvelope.decay,
                      sustain |-> p.ampEnvelope.sustain, release |-> p.ampEnvelope.release],
          subGain |-> IF p.subOscillator.enabled THEN p.subOscillator.level ELSE 0,
          noiseType |-> p.noiseLayer.type,
          noiseFilterFreq |-> p.noiseLayer.filterFreq,
          noiseAttack |-> p.noiseLayer.attack,
          noiseDecay |-> p.noiseLayer.decay,
          noiseGain |-> IF p.noiseLayer.enabled THEN p.noiseLayer.level ELSE 0,
          gain |-> DbToGain(p.masterVolume) ]
      effects ==
        [ order |-> ChebyshevOrder(p.distortion.drive),
          distortionGain |-> p.distortion.mix,
          dryGain |-> 100 - p.distortion.mix,
          filterType |-> p.filter.type,
          filterFreq |-> p.filter.frequency,
          filterQ |-> p.filter.resonance,
          compThreshold |-> p.compressor.threshold,
          compRatio |-> p.compressor.ratio,
          compAttack |-> p.compressor.attack,
          compRelease |-> p.compressor.release,
          eqLow |-> p.eq.lowGain, eqMid |-> p.eq.midGain, eqHigh |-> p.eq.highGain,
          limiterThreshold |-> p.limiter.threshold ]
      g1 == Chain(VoiceEdges, <<"oscMix", "distortion", "distortionGain", "distortionMix">>)
      g2 == Chain(g1, <<"oscMix", "dryGain", "distortionMix">>)
      g3 == IF p.limiter.enabled
            THEN Chain(g2, <<"distortionMix", "filter", "compressor", "eq", "limiter", "gain">>)
            ELSE Chain(g2, <<"distortionMix", "filter", "compressor", "eq", "gain">>)
      g4 == Connect(VoiceEdges, "oscMix", "gain")
  IN  [ node  |-> IF effectsConnected THEN Spread(voiceNodes, effects) ELSE voiceNodes,
        edges |-> Connect(IF effectsConnected THEN g3 ELSE g4, "gain", "destination"),
        velocity |-> p.synth.velocity,
        subOctave |-> IF p.subOscillator.octave = -2 THEN -2 ELSE -1,
        subTriggered |-> p.subOscillator.enabled,
        noiseTriggered |-> p.noiseLayer.enabled ]

\* Instants of the rendered note, in per-mille of full scale: the main
\* oscillator at phase 0, pi/2, pi and 3pi/2 with its envelope at the peak,
\* the sine one and two octaves below at half and a quarter of that phase (the
\* two frequency ramps keep the ratio), and a noise sample after its low-pass
\* and envelope.
Instants ==
  << [main |-> 0,     sub1 |-> 0,    sub2 |-> 0,   noise |-> 0],
     [main |-> 1000,  sub1 |-> 707,  sub2 |-> 383, noise |-> 500],
     [main |-> 0,     sub1 |-> 1000, sub2 |-> 707, noise |-> -500],
     [main |-> -1000, sub1 |-> 707,  sub2 |-> 924, noise |-> 0] >>

\* x * num / den rounded toward zero, as the magnitude of a sample scales.
Scale(x, num, den) == IF x >= 0 THEN (x * num) \div den ELSE -(((-x) * num) \div den)

\* A sample held to the range [-ceiling, ceiling].
Clip(x, ceiling) == IF x > ceiling THEN ceiling ELSE IF x < -ceiling THEN -ceiling ELSE x

\* One output sample of the rendered graph.  The voices sum at oscMix:
\* synth at the trigger velocity, subSynth at the velocity through subGain,
\* the noise envelope through noiseGain.  Without the effects oscMix feeds
\* the master gain.  With them the wave shaper (whose curve is defined on
\* [-1, 1] and maps into [-1, 1]) is mixed with the dry signal, the limiter
\* holds the signal at its threshold, and filter, compressor and EQ, whose
\* output depends on earlier samples, pass the instant unchanged.
renderSample(g, s) ==
  LET n     == g.node
      sub   == IF g.subOctave = -2 THEN s.sub2 ELSE s.sub1
      synth == Scale(s.main, g.velocity, 100)
      subS  == IF g.subTriggered THEN Scale(Scale(sub, g.velocity, 100), n.subGain, 100) ELSE 0
      noise == IF g.noiseTriggered THEN Scale(s.noise, n.noiseGain, 100) ELSE 0
      mix   == synth + subS + noise
      wet   == Scale(Clip(mix, 1000), n.distortionGain, 100)
      dry   == Scale(mix, n.dryGain, 100)
      eq    == wet + dry
      out   == IF <<"eq", "limiter">> \in g.edges
               THEN Clip(eq, DbToGain(n.limiterThreshold)) ELSE eq
  IN  IF <<"oscMix", "gain">> \in g.edges
      THEN Scale(mix, n.gain, 1000)
      ELSE Scale(out, n.gain, 1000)

\* The channel data of the buffer Tone.Offline resolves with.
renderBuffer(g) == [k \in 1 .. Len(Instants) |-> renderSample(g, Instants[k])]

\* The render job with the graph built when the call is resumed, from the
\* object `params` still refers to.
renderOfflineResolve_late(job, e) ==
  [job EXCEPT !.pc = "done", !.result = renderBuffer(renderGraph(e.params, job.patched))]

\* renderOffline() from the resolution of Tone.Offline to its return: the
\* buffer comes from the graph the callback built during the call.
renderOfflineResolve(job, e) ==
  [job EXCEPT !.pc = "done", !.result = renderBuffer(job.graph)]

\* renderOffline() up to `await Tone.Offline(...)`: Tone.Offline runs the
\* callback before it suspends, so the graph exists when the call yields.
renderOfflineCall(e) ==
  [ pc |-> "rendering", params |-> e.params, patched |-> e.effectsConnected,
    graph |-> renderGraph(e.params, e.effectsConnected), result |-> <<>> ]

NoRender ==
  [ pc |-> "idle", params |-> DEFAULT_PARAMS, patched |-> FALSE,
    graph |-> renderGraph(DEFAULT_PARAMS, FALSE), result |-> <<>> ]

\* { ...this.params }: a new object whose sections are the engine's section
\* objects; masterVolume is copied by value.
getParamsObject(e) == [value |-> getParams(e), taken |-> TRUE, shares |-> Sections]

NoSnapshot == [value |-> DEFAULT_PARAMS, taken |-> FALSE, shares |-> {}]

\* `this.params.section = { ... }` binds the engine's section to a new
\* object: an object returned earlier keeps the old one and stops sharing it.
assignSections(s, sections) == [s EXCEPT !.shares = @ \ sections]

\* ------------------------------------------------------- the preset library
\* The factory presets the list starts with (two of them).
DEFAULT_PRESETS ==
  << [id |-> "classic-808", name |-> "Classic 808", category |-> "Classic",
      params |-> DEFAULT_PARAMS],
     [id |-> "lo-fi-808", name |-> "Lo-Fi 808", category |-> "Lo-Fi", params |-> loFi808] >>

\* The usePresets hook after its mount effect found no stored presets.
\* `result` is what the last importPreset call returned, `given` its
\* argument and `before` the list and the storage at that call.
NewLib ==
  [ presets |-> DEFAULT_PRESETS, stored |-> <<>>, result |-> "none",
    given |-> [text |-> "none"], before |-> [presets |-> <<>>, stored |-> <<>>] ]

\* The texts handed to importPreset: not JSON at all, the JSON of null or of
\* a number, and the JSON of an object whose name is missing, empty or a
\* text and whose params are missing, null, an object with one incomplete
\* section, or a complete aggregate.
JsonTexts ==
  { [text |-> "malformed"], [text |-> "null"], [text |-> "number"] }
  \cup { [text |-> "object", name |-> n, params |-> q] :
           n \in {"undefined", "", "My 808"},
           q \in {"undefined", "null", "partial", "full"} }

\* JSON.parse: throws on a text that is no JSON, and returns the value
\* otherwise.  A key the text does not hold reads as undefined.
JSONParse(j) ==
  CASE j.text = "malformed" -> [threw |-> TRUE]
    [] j.text = "null"      -> [threw |-> FALSE, type |-> "null"]
    [] j.text = "number"    -> [threw |-> FALSE, type |-> "number"]
    [] OTHER                -> [threw |-> FALSE, type |-> "object", name |-> j.name,
                                params |-> j.params]

\* The value of the params key of a parsed object.
ParamsValue(q) ==
  CASE q = "full"    -> loFi808
    [] q = "partial" -> [synth |-> [note |-> "C1"]]
    [] OTHER         -> <<>>

\* !value for the values above: undefined, null and "" are falsy, an object
\* is truthy whatever keys it holds.
Falsy(x) == x \in {"undefined", "null", ""}

\* saveToStorage: the presets whose id is not a factory id.
saveToStorage(presets) ==
  SelectSeq(presets, LAMBDA q : \A k \in 1 .. Len(DEFAULT_PRESETS) : DEFAULT_PRESETS[k].id # q.id)

\* importPreset(jsonString).  Reading a property of null throws inside the
\* try block; a number has no name.
importPreset(l, j) ==
  LET parsed == JSONParse(j)
      seen   == [l EXCEPT !.given = j, !.before = [presets |-> l.presets, stored |-> l.stored]]
  IN  IF parsed.threw \/ parsed.type = "null"
      THEN [seen EXCEPT !.result = "null"]
      ELSE IF parsed.type = "number" \/ Falsy(parsed.name) \/ Falsy(parsed.params)
      THEN [seen EXCEPT !.result = "null"]
      ELSE LET newPreset == [id |-> "imported", name |-> parsed.name, category |-> "User",
                             params |-> ParamsValue(parsed.params)]
               updated   == Append(l.presets, newPreset)
           IN  [seen EXCEPT !.presets = updated, !.stored = saveToStorage(updated),
                            !.result = "preset"]

\* savePreset(name): the current parameters of the hook as a user preset.
savePreset(l, currentParams) ==
  LET newPreset == [id |-> "user", name |-> "Saved", category |-> "User",
                    params |-> currentParams]
      updated   == Append(l.presets, newPreset)
  IN  [l EXCEPT !.presets = updated, !.stored = saveToStorage(updated), !.result = "none",
                !.given = [text |-> "none"]]

\* ------------------------------------------------------- the hook's flags
\* useAudioEngine as first rendered.  `suspended` holds the calls of the
\* hook's initialize() that wait at `await audioEngine.initialize()`: whether
\* trigger() is waiting for them (kind) and whether the engine's call went on
\* to `await Tone.start()` or returned at its guard (on); `timers` holds the
\* pending setTimeout callbacks of trigger().  called, completed and fired
\* count the trigger() calls made, the ones that ran to their end, and the
\* ones in which audioEngine.trigger() got past its guard.
NewHook ==
  [ isInitialized |-> FALSE, isPlaying |-> FALSE, suspended |-> <<>>, timers |-> {},
    called |-> 0, completed |-> 0, fired |-> 0 ]

\* trigger() of the hook from setIsPlaying(true) to its end, at Tone.now() =
\* t with the engine e and the voices v: the reset timer is due after
\* decay + release of the hook's params.
hookTriggerTail(h, e, v, t, params) ==
  LET r == trigger(e, v, t) IN
  [ hook  |-> [h EXCEPT !.isPlaying = TRUE,
                        !.completed = @ + 1,
                        !.fired = IF e.hasNodes /\ e.isInitialized THEN @ + 1 ELSE @,
                        !.timers = IF r.voice.threw THEN @
                                   ELSE @ \cup {[due |-> t + params.ampEnvelope.decay
                                                            + params.ampEnvelope.release]}],
    eng   |-> r.eng,
    voice |-> r.voice ]

\* The statements of the hook that follow `await audioEngine.initialize()`:
\* setIsInitialized(true), and the rest of trigger() when trigger() waits.
hookResume(h, call, e, v, t, params) ==
  LET h1 == [h EXCEPT !.isInitialized = TRUE] IN
  IF call.kind = "trigger"
  THEN hookTriggerTail(h1, e, v, t, params)
  ELSE [hook |-> h1, eng |-> e, voice |-> v]

\* The sequence s without its k-th element.
Without(s, k) == SubSeq(s, 1, k - 1) \o SubSeq(s, k + 1, Len(s))

\* ------------------------------------------------------------- the calls
\* The partial patches the control surface sends: one field per control
\* (SynthWindow, EffectsWindow, OutputWindow), the bit-crush defaults of the
\* distortion type selector, and the empty patch.
NoPatch == [f \in {} |-> 0]

Patches ==
  [ synth          |-> {[waveform |-> "triangle"], [velocity |-> 100], NoPatch},
    subOscillator  |-> {[enabled |-> TRUE], [level |-> 100], [detune |-> 5], NoPatch},
    noiseLayer     |-> {[enabled |-> TRUE], [level |-> 100], NoPatch},
    pitchEnvelope  |-> {[curve |-> "linear"], NoPatch},
    ampEnvelope    |-> {[decay |-> 400], NoPatch},
    distortion     |-> {[type |-> "tape"], [drive |-> 50], [mix |-> 100],
                        [type |-> "bitcrush", drive |-> 60, bitDepth |-> 2, mix |-> 80], NoPatch},
    filter         |-> {[frequency |-> 500], NoPatch},
    filterEnvelope |-> {[enabled |-> TRUE], [amount |-> 10], NoPatch},
    compressor     |-> {[enabled |-> TRUE], [ratio |-> 8], NoPatch},
    eq             |-> {[lowGain |-> 0], NoPatch},
    reverb         |-> {[enabled |-> TRUE], [mix |-> 100], NoPatch},
    limiter        |-> {[enabled |-> FALSE], [enabled |-> TRUE], [threshold |-> -6], NoPatch} ]

\* The patches of the life-cycle behaviours: the ones that touch the routing
\* and one control of every other section.
LifePatches ==
  [ synth          |-> {[waveform |-> "triangle"]},
    subOscillator  |-> {[enabled |-> TRUE]},
    noiseLayer     |-> {[enabled |-> TRUE]},
    pitchEnvelope  |-> {[curve |-> "linear"]},
    ampEnvelope    |-> {[decay |-> 400]},
    distortion     |-> {[type |-> "tape"], [mix |-> 100]},
    filter         |-> {[frequency |-> 500]},
    filterEnvelope |-> {[enabled |-> TRUE]},
    compressor     |-> {[enabled |-> TRUE]},
    eq             |-> {[lowGain |-> 0]},
    reverb         |-> {[mix |-> 100]},
    limiter        |-> {[enabled |-> FALSE], [enabled |-> TRUE]} ]

\* The controls of the sub oscillator panel: the enable box, the octave
\* selector and the detune slider (in cents).
SubPatches == {[enabled |-> TRUE], [octave |-> -2], [detune |-> 5]}

Menu(section) ==
  CASE mode = "patch" -> Patches[section]
    [] mode = "sub" /\ section = "subOscillator" -> SubPatches
    [] OTHER -> LifePatches[section]

Volumes == IF mode = "patch" THEN {0, -12} ELSE {0}

PresetMenu == IF mode = "patch" THEN Presets ELSE {loFi808}

Budget == CASE mode = "patch" -> MaxPatchSteps
            [] mode = "render" -> MaxRenderSteps
            [] mode = "trigger" -> MaxTriggerSteps
            [] OTHER -> MaxSteps

Op(name, flag) == [op |-> name, flag |-> flag]

\* What every control call records about itself.
Called(name, flag, arg) ==
  /\ steps < Budget
  /\ steps' = steps + 1
  /\ lastOp' = Op(name, flag)
  /\ pre' = IF mode = "patch" THEN eng ELSE pre
  /\ lastPatch' = IF mode = "patch" THEN arg ELSE lastPatch
  /\ UNCHANGED <<mode, render, others>>

\* The sections a call made now is recorded under in `early`.
Early(sections) == IF eng.hasNodes THEN early ELSE early \cup sections

Update(name, section, f(_, _)) ==
  \E p \in Menu(section) :
    /\ Called(name, FALSE, p)
    /\ eng' = f(eng, p)
    /\ ui' = [ui EXCEPT ![section] = Spread(ui[section], p)]
    /\ early' = Early({section})
    /\ snap' = assignSections(snap, {section})
    /\ secTwice' = FALSE
    /\ UNCHANGED <<awaiting, buildCount, disposeCount, requested, voice>>

UpdateSynthParams    == Update("updateSynthParams", "synth", updateSynthParams)
UpdateSubOscillator  == Update("updateSubOscillator", "subOscillator", updateSubOscillator)
UpdateNoiseLayer     == Update("updateNoiseLayer", "noiseLayer", updateNoiseLayer)
UpdatePitchEnvelope  == Update("updatePitchEnvelope", "pitchEnvelope", updatePitchEnvelope)
UpdateAmpEnvelope    == Update("updateAmpEnvelope", "ampEnvelope", updateAmpEnvelope)
UpdateDistortion     == Update("updateDistortion", "distortion", updateDistortion)
UpdateFilter         == Update("updateFilter", "filter", updateFilter)
UpdateFilterEnvelope == Update("updateFilterEnvelope", "filterEnvelope", updateFilterEnvelope)
UpdateCompressor     == Update("updateCompressor", "compressor", updateCompressor)
UpdateEQ             == Update("updateEQ", "eq", updateEQ)
UpdateReverb         == Update("updateReverb", "reverb", updateReverb)
UpdateLimiter        == Update("updateLimiter", "limiter", updateLimiter)

UpdateMasterVolume ==
  \E db \in Volumes :
    /\ Called("updateMasterVolume", FALSE, db)
    /\ eng' = updateMasterVolume(eng, db)
    /\ ui' = [ui EXCEPT !.masterVolume = db]
    /\ early' = Early({"masterVolume"})
    /\ secTwice' = FALSE
    /\ UNCHANGED <<awaiting, buildCount, disposeCount, requested, snap, voice>>

SetParams ==
  \E p \in PresetMenu :
    /\ Called("setParams", FALSE, p)
    /\ eng' = setParams(eng, p)
    /\ ui' = p
    /\ early' = Early(Sections \cup {"masterVolume"})
    /\ snap' = assignSections(snap, Sections)
    /\ secTwice' = FALSE
    /\ UNCHANGED <<awaiting, buildCount, disposeCount, requested, voice>>

SetEffectsConnected ==
  \E connected \in BOOLEAN :
    /\ Called("setEffectsConnected", connected, connected)
    /\ eng' = setEffectsConnected(eng, connected)
    /\ requested' = connected
    /\ secTwice' = (lastOp = Op("setEffectsConnected", connected))
    /\ UNCHANGED <<awaiting, buildCount, disposeCount, early, ui, snap, voice>>

Dispose ==
  /\ Called("dispose", FALSE, FALSE)
  /\ eng' = dispose(eng)
  /\ disposeCount' = disposeCount + 1
  /\ secTwice' = FALSE
  /\ voice' = NewVoice
  /\ UNCHANGED <<awaiting, buildCount, requested, early, ui, snap>>

\* A life-cycle step keeps the recorded history of the control calls.
LifeStep(name, flag) ==
  /\ lastOp' = Op(name, flag)
  /\ secTwice' = FALSE
  /\ UNCHANGED <<steps, mode, pre, lastPatch, requested, disposeCount, early, ui, render, snap,
                 others>>

\* initialize() up to `await Tone.start()`: the guard lets the call through.
InitializeStart ==
  /\ initializeGuard(eng)
  /\ awaiting < MaxAwaiting
  /\ eng' = [eng EXCEPT !.isInitializing = TRUE]
  /\ awaiting' = awaiting + 1
  /\ LifeStep("initializeStart", FALSE)
  /\ UNCHANGED <<buildCount, voice>>

\* initialize() returning at once because of the guard.
InitializeNoop ==
  /\ ~initializeGuard(eng)
  /\ lastOp.op # "initializeNoop"
  /\ LifeStep("initializeNoop", FALSE)
  /\ UNCHANGED <<eng, awaiting, buildCount, voice>>

\* Tone.start() resolves and a suspended initialize() runs to its end.
StartResolves ==
  /\ awaiting > 0
  /\ awaiting' = awaiting - 1
  /\ eng' = initializeBody(eng)
  /\ buildCount' = buildCount + 1
  /\ voice' = NewVoice
  /\ LifeStep("initializeDone", FALSE)

\* Tone.start() rejects: the suspended initialize() rejects at the await and
\* runs no further statement.
StartRejects ==
  /\ awaiting > 0
  /\ awaiting' = awaiting - 1
  /\ LifeStep("initializeRejected", TRUE)
  /\ UNCHANGED <<eng, buildCount, voice>>

\* The engine holding the parameters p and the patched flag, no node built.
Started(p, connected) ==
  /\ eng = [NewEngine EXCEPT !.params = p, !.effectsConnected = connected]
  /\ awaiting = 0
  /\ buildCount = 0
  /\ disposeCount = 0
  /\ requested = connected
  /\ lastOp = Op("new", FALSE)
  /\ secTwice = FALSE
  /\ steps = 0
  /\ pre = NewEngine
  /\ lastPatch = NoPatch
  /\ ui = p
  /\ render = NoRender
  /\ snap = NoSnapshot
  /\ voice = NewVoice
  /\ now = 0
  /\ bay = NewBay
  /\ lib = NewLib
  /\ hook = NewHook

\* renderOffline() is called and suspends at `await Tone.Offline(...)`.
RenderOfflineCall ==
  /\ render.pc = "idle"
  /\ render' = renderOfflineCall(eng)
  /\ lastOp' = Op("renderOffline", eng.effectsConnected)
  /\ secTwice' = FALSE
  /\ UNCHANGED <<eng, awaiting, buildCount, disposeCount, requested, steps, mode, pre,
                 lastPatch, early, ui, snap, voice, others>>

\* Tone.Offline resolves and renderOffline() returns the channel data.
RenderOfflineResolve ==
  /\ render.pc = "rendering"
  /\ render' = renderOfflineResolve(render, eng)
  /\ lastOp' = Op("renderOfflineDone", render.patched)
  /\ secTwice' = FALSE
  /\ UNCHANGED <<eng, awaiting, buildCount, disposeCount, requested, steps, mode, pre,
                 lastPatch, early, ui, snap, voice, others>>

\* A caller takes getParams() and keeps the returned object.
GetParams ==
  /\ ~snap.taken
  /\ snap' = getParamsObject(eng)
  /\ lastOp' = Op("getParams", FALSE)
  /\ secTwice' = FALSE
  /\ UNCHANGED <<eng, awaiting, buildCount, disposeCount, requested, steps, mode, pre,
                 lastPatch, early, ui, render, voice, others>>

\* The state after `new AudioEngine()` and the first render of the hook.
Constructed ==
  /\ Started(DEFAULT_PARAMS, FALSE)
  /\ early = {}
  /\ wav = NoWav

\* The parameter sets a render starts from: the defaults, and the defaults
\* with every voice at full level and the master volume at 0 dB.
Loud ==
  [DEFAULT_PARAMS EXCEPT !.synth.velocity = 100,
                         !.subOscillator.enabled = TRUE, !.subOscillator.level = 100,
                         !.noiseLayer.enabled = TRUE, !.noiseLayer.level = 100,
                         !.masterVolume = 0]

RenderInputs == {DEFAULT_PARAMS, Loud}

\* The engine before initialize(), after the hook has loaded p with
\* setParams(p) and the patch bay has reported `connected`.
InitRender ==
  /\ mode = "render"
  /\ \E p \in RenderInputs, connected \in BOOLEAN :
        /\ Started(p, connected)
        /\ early = IF p = DEFAULT_PARAMS THEN {} ELSE Sections \cup {"masterVolume"}
  /\ wav = NoWav

Init == Constructed /\ mode = "life"

InitPatch == Constructed /\ mode = "patch"

Next ==
  \/ InitializeStart \/ InitializeNoop \/ StartResolves \/ StartRejects \/ Dispose
  \/ SetEffectsConnected \/ SetParams
  \/ UpdateSynthParams \/ UpdateSubOscillator \/ UpdateNoiseLayer \/ UpdatePitchEnvelope
  \/ UpdateAmpEnvelope \/ UpdateDistortion \/ UpdateFilter \/ UpdateFilterEnvelope
  \/ UpdateCompressor \/ UpdateEQ \/ UpdateReverb \/ UpdateLimiter \/ UpdateMasterVolume

Spec == Init /\ [][Next]_vars

\* The same calls with the state before each call and its argument recorded.
SpecPatch == InitPatch /\ [][Next]_vars

\* trigger() at the current Tone.now(): two calls with no audio block
\* rendered in between read the same time.
Trigger ==
  LET r == trigger(eng, voice, now) IN
  /\ Called("trigger", r.voice.threw, now)
  /\ eng' = r.eng
  /\ voice' = r.voice
  /\ secTwice' = FALSE
  /\ UNCHANGED <<awaiting, buildCount, disposeCount, requested, early, ui, snap>>

\* How far the audio clock runs between two calls: into the decay of a note,
\* into its release, or past its end.
Advances == {100, 400, 1000}
MaxTime == MaxTicks * 1000

\* The audio context renders and Tone.now() moves on.
Tick ==
  /\ \E d \in Advances : now + d <= MaxTime /\ now' = now + d
  /\ UNCHANGED <<eng, awaiting, buildCount, disposeCount, requested, lastOp, secTwice, steps,
                 mode, pre, lastPatch, early, ui, render, snap, voice, bay, wav, lib, hook>>

\* What a call on the patch bay leaves alone; `fired` says whether the
\* manager called onConnectionChange(connected), which the application wires
\* to setEffectsConnected.
BayStep(name, fired, connected) ==
  /\ lastOp' = Op(name, fired)
  /\ eng' = IF fired THEN setEffectsConnected(eng, connected) ELSE eng
  /\ requested' = IF fired THEN connected ELSE requested
  /\ secTwice' = FALSE
  /\ UNCHANGED <<awaiting, buildCount, disposeCount, steps, mode, pre, lastPatch, early, ui,
                 render, snap, voice, now, wav, lib, hook>>

\* A Jack component mounts.
RegisterJack ==
  \E id \in JackIds \ bay.jacks :
    /\ bay' = registerJack(bay, id)
    /\ BayStep("registerJack", bay'.connections # bay.connections, TRUE)

\* A Jack component unmounts (its window is closed).
UnregisterJack ==
  \E id \in bay.jacks :
    /\ bay' = unregisterJack(bay, id)
    /\ BayStep("unregisterJack", FALSE, FALSE)

\* A cable is dropped on a jack.
ConnectJacks ==
  \E fromId \in bay.jacks : \E toId \in bay.jacks \ {fromId} :
    /\ bay' = [connect(bay, fromId, toId) EXCEPT
                 !.replaced = Connects(bay, fromId, toId)
                                /\ isConnected(bay, InputOf(fromId, toId))]
    /\ BayStep("connect", Connects(bay, fromId, toId), TRUE)

\* A cable is clicked away, or a connected input jack is clicked.
DisconnectCable ==
  \E c \in bay.connections :
    /\ bay' = disconnect(bay, c)
    /\ BayStep("disconnect", TRUE, bay'.connections # {})

\* What an encodeWAV call leaves alone.
WavStep(name) ==
  /\ lastOp' = Op(name, FALSE)
  /\ UNCHANGED <<eng, awaiting, buildCount, disposeCount, requested, secTwice, steps, mode, pre,
                 lastPatch, early, ui, render, snap, voice, now, bay, lib, hook>>

\* encodeWAV(samples, sampleRate)
EncodeWAV ==
  /\ ~wav.done
  /\ wav' = [wav EXCEPT !.bytes = encodeWAV(wav.samples, wav.sampleRate), !.done = TRUE]
  /\ WavStep("encodeWAV")

\* encodeWAV(samples): the sample rate takes its default.
EncodeWAVDefault ==
  /\ ~wav.done
  /\ wav' = [wav EXCEPT !.sampleRate = 44100, !.bytes = encodeWAV(wav.samples, 44100),
                        !.done = TRUE]
  /\ WavStep("encodeWAVDefault")

\* Sample values inside and outside [-1, 1], and the sample rates of a call.
SampleValues == {-1500, -1000, -250, 500, 1000}
SampleRates == {22050, 44100, 48000}

RECURSIVE Buffers(_)
Buffers(n) ==
  IF n = 0 THEN {<<>>}
  ELSE Buffers(n - 1) \cup {Append(b, x) : b \in {c \in Buffers(n - 1) : Len(c) = n - 1},
                                           x \in SampleValues}

\* An encodeWAV call about to be made on a buffer of at most MaxSamples samples.
InitWav ==
  /\ mode = "wav"
  /\ Started(DEFAULT_PARAMS, FALSE)
  /\ early = {}
  /\ \E samples \in Buffers(MaxSamples), rate \in SampleRates :
       wav = [samples |-> samples, sampleRate |-> rate, bytes |-> <<>>, done |-> FALSE]

NextWav == EncodeWAV \/ EncodeWAVDefault

SpecWav == InitWav /\ [][NextWav]_vars

\* The calls together with an offline render and a getParams() caller.
NextRender == Next \/ RenderOfflineCall \/ RenderOfflineResolve \/ GetParams

SpecRender == InitRender /\ [][NextRender]_vars

\* The engine with its trigger and the running audio clock.
InitTrigger == Constructed /\ mode = "trigger"

\* The life cycle, the updates of the sections trigger() reads, and trigger().
NextTrigger ==
  \/ InitializeStart \/ InitializeNoop \/ StartResolves \/ StartRejects \/ Dispose
  \/ UpdateAmpEnvelope \/ UpdateSubOscillator \/ UpdateNoiseLayer \/ UpdateFilterEnvelope
  \/ Trigger \/ Tick

SpecTrigger == InitTrigger /\ [][NextTrigger]_vars

\* The patch bay next to an engine that is being initialized.
InitCables == Constructed /\ mode = "cables"

NextCables ==
  \/ RegisterJack \/ UnregisterJack \/ ConnectJacks \/ DisconnectCable
  \/ InitializeStart \/ StartResolves

SpecCables == InitCables /\ [][NextCables]_vars

\* The patch bay wired to an engine that is initialized and disposed.
InitWiring == Constructed /\ mode = "wiring"

NextWiring == NextCables \/ Dispose

SpecWiring == InitWiring /\ [][NextWiring]_vars

\* What a call on the preset library leaves alone.
LibStep ==
  UNCHANGED <<eng, awaiting, buildCount, disposeCount, requested, lastOp, secTwice, steps,
              mode, pre, lastPatch, early, ui, render, snap, voice, now, bay, wav, hook>>

\* A file is chosen in the presets window and its text handed to importPreset.
ImportPreset ==
  /\ Len(lib.presets) < Len(DEFAULT_PRESETS) + MaxImports
  /\ \E j \in JsonTexts : lib' = importPreset(lib, j)
  /\ LibStep

\* The current sound is saved under a name.
SavePreset ==
  /\ Len(lib.presets) < Len(DEFAULT_PRESETS) + MaxImports
  /\ lib' = savePreset(lib, ui)
  /\ LibStep

InitPresets == Constructed /\ mode = "presets"

NextPresets == ImportPreset \/ SavePreset

SpecPresets == InitPresets /\ [][NextPresets]_vars

\* What a step of the hook leaves alone.
HookStep(name) ==
  /\ lastOp' = Op(name, FALSE)
  /\ secTwice' = FALSE
  /\ UNCHANGED <<disposeCount, requested, steps, mode, pre, lastPatch, early, ui, render,
                 snap, now, bay, wav, lib>>

\* A continuation that waits for a promise already resolved runs before
\* any other event is handled.
MicrotaskPending == \E k \in 1 .. Len(hook.suspended) : hook.suspended[k].on = "guard"

\* A timer whose time has passed runs before a later event is handled and
\* before the clock moves further.
TimerOverdue == \E t \in hook.timers : t.due < now

\* No continuation and no overdue timer is waiting: the next event is handled.
EventLoopIdle == ~MicrotaskPending /\ ~TimerOverdue

\* initialize() of the hook up to `await audioEngine.initialize()`, called
\* by trigger() or by the gesture listener (kind).
HookCallsInitialize(kind, h) ==
  IF initializeGuard(eng)
  THEN /\ awaiting < MaxAwaiting
       /\ eng' = [eng EXCEPT !.isInitializing = TRUE]
       /\ awaiting' = awaiting + 1
       /\ hook' = [h EXCEPT !.suspended = Append(@, [kind |-> kind, on |-> "start"])]
  ELSE /\ hook' = [h EXCEPT !.suspended = Append(@, [kind |-> kind, on |-> "guard"])]
       /\ UNCHANGED <<eng, awaiting>>

\* A first click, touch or key press runs the gesture listener.
HookInitialize ==
  /\ EventLoopIdle
  /\ ~hook.isInitialized
  /\ Len(hook.suspended) + hook.called < MaxHookCalls
  /\ HookCallsInitialize("initialize", hook)
  /\ HookStep("hookInitialize")
  /\ UNCHANGED <<buildCount, voice>>

\* trigger() of the hook is called (button, space bar or MIDI note).
HookTrigger ==
  /\ EventLoopIdle
  /\ Len(hook.suspended) + hook.called < MaxHookCalls
  /\ LET h == [hook EXCEPT !.called = @ + 1] IN
     IF hook.isInitialized
     THEN LET r == hookTriggerTail(h, eng, voice, now, ui) IN
          /\ hook' = r.hook /\ eng' = r.eng /\ voice' = r.voice
          /\ UNCHANGED awaiting
     ELSE /\ HookCallsInitialize("trigger", h)
          /\ UNCHANGED voice
  /\ HookStep("hookTrigger")
  /\ UNCHANGED buildCount

\* The engine's initialize() had returned at its guard: the hook's call
\* resumes at once.
HookResumeAtGuard ==
  /\ \E k \in 1 .. Len(hook.suspended) :
        /\ hook.suspended[k].on = "guard"
        /\ \A j \in 1 .. k - 1 : hook.suspended[j].on # "guard"
        /\ LET r == hookResume([hook EXCEPT !.suspended = Without(@, k)],
                               hook.suspended[k], eng, voice, now, ui) IN
           hook' = r.hook /\ eng' = r.eng /\ voice' = r.voice
  /\ HookStep("hookResume")
  /\ UNCHANGED <<awaiting, buildCount>>

\* Tone.start() resolves: the engine's initialize() runs to its end and the
\* hook's call that waited for it resumes.
HookStartResolves ==
  /\ EventLoopIdle
  /\ awaiting > 0
  /\ awaiting' = awaiting - 1
  /\ buildCount' = buildCount + 1
  /\ \E k \in 1 .. Len(hook.suspended) :
        /\ hook.suspended[k].on = "start"
        /\ \A j \in 1 .. k - 1 : hook.suspended[j].on # "start"
        /\ LET r == hookResume([hook EXCEPT !.suspended = Without(@, k)],
                               hook.suspended[k], initializeBody(eng), NewVoice, now, ui) IN
           hook' = r.hook /\ eng' = r.eng /\ voice' = r.voice
  /\ HookStep("hookStarted")

\* A reset timer of trigger() is due and runs setIsPlaying(false).
TimerFires ==
  /\ ~MicrotaskPending
  /\ \E t \in hook.timers :
        /\ t.due <= now
        /\ hook' = [hook EXCEPT !.isPlaying = FALSE, !.timers = @ \ {t}]
  /\ HookStep("timer")
  /\ UNCHANGED <<eng, awaiting, buildCount, voice>>

\* The audio clock runs on while the event loop is idle.
HookTick == EventLoopIdle /\ Tick

\* The hook in the application: gestures, triggers, timers, the audio clock.
InitHook == Constructed /\ mode = "hook"

NextHook ==
  \/ HookInitialize \/ HookTrigger \/ HookResumeAtGuard \/ HookStartResolves
  \/ TimerFires \/ HookTick

SpecHook == InitHook /\ [][NextHook]_vars

\* The engine with the sub oscillator panel, setParams and the trigger.
InitSub == Constructed /\ mode = "sub"

NextSub ==
  \/ InitializeStart \/ StartResolves \/ UpdateSubOscillator \/ SetParams
  \/ Trigger \/ Tick

SpecSub == InitSub /\ [][NextSub]_vars

\* ------------------------------------------------------------- the claims
\* The nodes a signal entering at `from` reaches over the connections.
RECURSIVE Reach(_, _)
Reach(edges, seen) ==
  LET more == seen \cup {c[2] : c \in {d \in edges : d[1] \in seen}} IN
  IF more = seen THEN seen ELSE Reach(edges, more)

\* The bypass path oscMix -> bypassGain -> gain is connected and open.
BypassActive(e) ==
  /\ {<<"oscMix", "bypassGain">>, <<"bypassGain", "gain">>} \subseteq e.edges
  /\ e.node.bypassGain > 0

\* The voice bus reaches the master gain through the effects chain.
EffectsActive(e) ==
  "gain" \in Reach({c \in e.edges : "bypassGain" \notin {c[1], c[2]}}, {"oscMix"})

\* C1: whenever the engine is initialized, exactly one path leads from the
\* voice bus to the master gain: the bypass path at gain 1 with the effects
\* chain severed, or the effects chain with the bypass gain at 0.
C1_ExactlyOnePath ==
  eng.isInitialized =>
    \/ BypassActive(eng) /\ eng.node.bypassGain = 100 /\ ~EffectsActive(eng)
    \/ EffectsActive(eng) /\ eng.node.bypassGain = 0 /\ ~BypassActive(eng)

C1_Witness ==
  /\ eng.isInitialized
  /\ EffectsActive(eng)
  /\ lastOp.op \in {"setParams", "updateLimiter"}
  /\ steps >= 3

\* C2: as long as dispose() has not run, the body of initialize() builds the
\* graph at most once, however the initialize() calls interleave.
C2_BuiltOnce == disposeCount = 0 => buildCount <= 1

\* A second initialize() returned at the guard while the first was in flight.
C2_Witness ==
  /\ lastOp.op = "initializeNoop"
  /\ awaiting = 1
  /\ ~eng.isInitialized
  /\ disposeCount = 0

\* C3: after a failed start the engine is uninitialized and a retry can still
\* initialize it: whenever the engine is uninitialized and no initialize() is
\* in flight, the guard of initialize() lets a new call through.
C3_RetryPossible ==
  (~eng.isInitialized /\ awaiting = 0) => initializeGuard(eng)

\* C7: a setEffectsConnected(v) call that directly follows a call with the
\* same v changes nothing: flag, connections and bypass gain stay as they are.
C7_Idempotent ==
  [][\A v \in BOOLEAN :
       (lastOp = Op("setEffectsConnected", v) /\ lastOp' = Op("setEffectsConnected", v))
         => eng' = eng]_vars

C7_Witness == secTwice /\ eng.isInitialized /\ eng.effectsConnected

\* The route the router is in.
Patched(e) == EffectsActive(e) /\ e.node.bypassGain = 0 /\ ~BypassActive(e)
Bypassed(e) == BypassActive(e) /\ e.node.bypassGain = 100 /\ ~EffectsActive(e)

Adsr(x) == [attack |-> x.attack, decay |-> x.decay, sustain |-> x.sustain, release |-> x.release]

\* The node settings of one section agree with the parameters p: every
\* setting holds the value of its field, a gain gated by an enabled flag is
\* (enabled ? level : 0), a disabled compressor runs at ratio 1 and a disabled
\* reverb passes the dry signal at unity.  The sub-oscillator detune is
\* applied at trigger time and is no node setting here.
Reflects(n, edges, p, section) ==
  CASE section = "synth" -> n.synthWaveform = p.synth.waveform
    [] section = "subOscillator" ->
         n.subGain = (IF p.subOscillator.enabled THEN p.subOscillator.level ELSE 0)
    [] section = "noiseLayer" ->
         /\ n.noiseType = p.noiseLayer.type
         /\ n.noiseFilterFreq = p.noiseLayer.filterFreq
         /\ n.noiseAttack = p.noiseLayer.attack
         /\ n.noiseDecay = p.noiseLayer.decay
         /\ n.noiseGain = (IF p.noiseLayer.enabled THEN p.noiseLayer.level ELSE 0)
    [] section = "pitchEnvelope" -> TRUE
    [] section = "ampEnvelope" ->
         /\ n.synthEnv = Adsr(p.ampEnvelope)
         /\ n.subEnv = Adsr(p.ampEnvelope)
    [] section = "distortion" ->
         /\ n.order = ChebyshevOrder(p.distortion.drive)
         /\ n.bits = p.distortion.bitDepth
         /\ n.distortionGain = p.distortion.mix
         /\ n.dryGain = 100 - p.distortion.mix
         /\ p.distortion.type \in {"tape", "waveshaper", "hardclip"} =>
              n.curve = [kind |-> p.distortion.type, drive |-> p.distortion.drive]
         /\ LET shaper == CASE p.distortion.type = "bitcrush" -> "bitcrusher"
                            [] p.distortion.type \in {"tape", "waveshaper", "hardclip"} -> "waveshaper"
                            [] OTHER -> "distortion"
            IN  {s \in Shapers : <<s, "distortionGain">> \in edges} = {shaper}
    [] section = "filter" ->
         /\ n.filterType = p.filter.type
         /\ n.filterFreq = p.filter.frequency
         /\ n.filterQ = p.filter.resonance
         /\ n.fenv.baseFrequency = p.filter.frequency
    [] section = "filterEnvelope" ->
         /\ Adsr(n.fenv) = Adsr(p.filterEnvelope)
         /\ FloorOctaves(n.fenv.octaves) =
              FloorOctaves(Octaves(p.filter.frequency + p.filterEnvelope.amount, p.filter.frequency))
         /\ (<<"filterEnvelope", "filter.frequency">> \in edges) = p.filterEnvelope.enabled
    [] section = "compressor" ->
         /\ n.compRatio = (IF p.compressor.enabled THEN p.compressor.ratio ELSE 1)
         /\ n.compThreshold = p.compressor.threshold
         /\ n.compAttack = p.compressor.attack
         /\ n.compRelease = p.compressor.release
    [] section = "eq" ->
         /\ n.eqLow = p.eq.lowGain /\ n.eqMid = p.eq.midGain /\ n.eqHigh = p.eq.highGain
    [] section = "reverb" ->
         /\ n.reverbDecay = p.reverb.decay
         /\ n.reverbPreDelay = p.reverb.preDelay
         /\ n.reverbWet = (IF p.reverb.enabled THEN p.reverb.mix ELSE 0)
         /\ n.reverbDry = 100 - n.reverbWet
    [] section = "limiter" ->
         /\ n.limiterThreshold = p.limiter.threshold
         /\ (<<"reverbMix", "limiter">> \in edges) = p.limiter.enabled
    [] OTHER -> n.gain = DbToGain(p.masterVolume)

\* C4: when initialize() completes, the active route is the last requested
\* one and the node settings of every section patched before the graph
\* existed reflect the merged parameters.
C4_EarlyCallsApplied ==
  (lastOp.op = "initializeDone" /\ disposeCount = 0) =>
     /\ eng.params = ui
     /\ eng.effectsConnected = requested
     /\ IF requested THEN Patched(eng) ELSE Bypassed(eng)
     /\ \A section \in early : Reflects(eng.node, eng.edges, eng.params, section)

\* The section an update call patches.
SectionOf ==
  [ updateSynthParams |-> "synth", updateSubOscillator |-> "subOscillator",
    updateNoiseLayer |-> "noiseLayer", updatePitchEnvelope |-> "pitchEnvelope",
    updateAmpEnvelope |-> "ampEnvelope", updateDistortion |-> "distortion",
    updateFilter |-> "filter", updateFilterEnvelope |-> "filterEnvelope",
    updateCompressor |-> "compressor", updateEQ |-> "eq", updateReverb |-> "reverb",
    updateLimiter |-> "limiter" ]

\* C8: after setParams(p) the stored parameters are p in every section, the
\* node settings of every section reflect p, the patched flag is what it was
\* and the effects path is in place when the engine is patched.
C8_SetParamsAppliesAll ==
  (mode = "patch" /\ lastOp.op = "setParams") =>
     /\ getParams(eng) = lastPatch
     /\ eng.effectsConnected = pre.effectsConnected
     /\ eng.hasNodes =>
          \A section \in Sections \cup {"masterVolume"} :
             Reflects(eng.node, eng.edges, lastPatch, section)
     /\ (eng.isInitialized /\ eng.effectsConnected) => Patched(eng)

\* C9: a per-section update sets the supplied fields of its section, keeps
\* the fields not supplied, leaves every other section, the master volume
\* and the patched flag alone, and changes nothing when the patch is empty;
\* the params state of the hook is merged the same way.
C9_UpdateFrame ==
  (mode = "patch" /\ lastOp.op \in DOMAIN SectionOf) =>
     LET section == SectionOf[lastOp.op]
         old == pre.params[section]
         new == eng.params[section]
     IN  /\ DOMAIN new = DOMAIN old
         /\ \A f \in DOMAIN old : new[f] = IF Has(lastPatch, f) THEN lastPatch[f] ELSE old[f]
         /\ \A other \in (Sections \cup {"masterVolume"}) \ {section} :
               eng.params[other] = pre.params[other]
         /\ eng.effectsConnected = pre.effectsConnected
         /\ lastPatch = NoPatch => eng = pre
         /\ ui = eng.params

\* A partial patch applied to a section that no longer holds its defaults.
C9_Witness ==
  /\ mode = "patch"
  /\ lastOp.op = "updateCompressor"
  /\ lastPatch = [ratio |-> 8]
  /\ pre.params.compressor.enabled
  /\ eng.params.compressor = [DEFAULT_PARAMS.compressor EXCEPT !.enabled = TRUE, !.ratio = 8]
  /\ eng.hasNodes

\* The effect stages a signal passes on its way from the voice bus to the
\* master gain, and the order it passes them in.
EffectStages == {"distortion", "bitcrusher", "waveshaper", "filter", "compressor", "eq",
                 "reverb", "limiter"}

OnPath(edges) ==
  {n \in EffectStages : n \in Reach(edges, {"oscMix"}) /\ "gain" \in Reach(edges, {n})}

StageOrder(edges) ==
  {c \in OnPath(edges) \X OnPath(edges) : c[1] # c[2] /\ c[2] \in Reach(edges, {c[1]})}

\* C5: a render started on an initialized engine builds, for the same
\* parameters and patched flag, the stages of the live graph in the same
\* order, with the filter envelope driving the filter and the compressor at
\* the ratio the live compressor runs at; not patched, it has no effect stage.
C5_RenderMirrorsLive ==
  (render.pc = "rendering" /\ eng.isInitialized /\ render.params = eng.params
     /\ render.patched = eng.effectsConnected) =>
     IF render.patched
     THEN /\ StageOrder(render.graph.edges) = StageOrder(eng.edges)
          /\ (<<"filterEnvelope", "filter.frequency">> \in render.graph.edges)
               = (<<"filterEnvelope", "filter.frequency">> \in eng.edges)
          /\ render.graph.node.compRatio = eng.node.compRatio
     ELSE OnPath(render.graph.edges) = {}

\* C6: every sample of the buffer renderOffline returns lies in [-1, 1].
C6_SamplesInRange ==
  render.pc = "done" =>
    \A k \in DOMAIN render.result : render.result[k] >= -1000 /\ render.result[k] <= 1000

\* What a holder of the object getParams() returned reads from it now: a
\* section object still shared with the engine shows the engine's section.
Observed(s, e) ==
  [f \in DOMAIN s.value |-> IF f \in s.shares THEN e.params[f] ELSE s.value[f]]

\* C10: the buffer of a finished render is the one the parameters and the
\* patched flag at the call give, whatever was called while it was pending,
\* and the object getParams() returned still reads as it did at the call.
C10_RenderSnapshot ==
  /\ render.pc = "done" =>
       render.result = renderBuffer(renderGraph(render.params, render.patched))
  /\ snap.taken => Observed(snap, eng) = snap.value

\* A call between the start and the end of a render, and after getParams(),
\* that would have changed the buffer.
C10_Witness ==
  /\ render.pc = "done"
  /\ snap.taken
  /\ lastOp.op = "renderOfflineDone"
  /\ render.params # eng.params
  /\ snap.value # eng.params
  /\ render.result # renderBuffer(renderGraph(eng.params, eng.effectsConnected))

\* The synth was restarted at t and its release is scheduled for the end of
\* the attack and decay given by env.
Restarted(v, env, t) ==
  /\ v.attackAt = t
  /\ v.releaseAt = t + env.attack + env.decay
  /\ OscStarted(v, t)

\* C11: on an initialized engine no trigger() throws, and every trigger()
\* restarts the amplitude envelope of the main voice, and of the sub voice
\* when it is enabled, at the trigger time and schedules the release for
\* trigger time + attack + decay, so that the voice sounds again.
C11_TriggerRestarts ==
  (lastOp.op = "trigger" /\ eng.isInitialized /\ eng.hasNodes) =>
     /\ ~voice.threw
     /\ Restarted(voice.synth, eng.params.ampEnvelope, eng.triggerTime)
     /\ eng.params.subOscillator.enabled =>
          Restarted(voice.subSynth, eng.params.ampEnvelope, eng.triggerTime)

\* C12: the manager connects synth-output to effects-input automatically
\* exactly once, when both jacks are registered together for the first
\* time, and no later registerJack / unregisterJack call connects again.
C12_AutoConnectOnce ==
  /\ bay.autoConnected <= 1
  /\ bay.bothSeen = (bay.autoConnected = 1)
  /\ bay.bothSeen = ~bay.autoConnectPending

\* The cable was removed and both jacks are registered again: no connection.
C12_Witness ==
  /\ lastOp.op = "registerJack"
  /\ {"synth-output", "effects-input"} \subseteq bay.jacks
  /\ bay.autoConnected = 1
  /\ bay.connections = {}

RECURSIVE ReadLE(_, _, _)
ReadLE(bytes, off, n) ==
  IF n = 0 THEN 0 ELSE bytes[off + 1] + 256 * ReadLE(bytes, off + 1, n - 1)

\* C14: encodeWAV of N samples returns 44 + 2N bytes, each in 0 .. 255, with
\* the chunk ids RIFF / WAVE / "fmt " / data, RIFF size 36 + 2N, fmt size
\* 16, format 1, one channel, the sample rate of the call, byte rate twice
\* the sample rate, block align 2, 16 bits per sample and data size 2N, all
\* numbers little-endian.
C14_WavLayout ==
  wav.done =>
    LET b == wav.bytes
        N == Len(wav.samples)
    IN  /\ Len(b) = 44 + 2 * N
        /\ \A i \in DOMAIN b : b[i] \in 0 .. 255
        /\ SubSeq(b, 1, 4) = <<82, 73, 70, 70>>
        /\ ReadLE(b, 4, 4) = 36 + 2 * N
        /\ SubSeq(b, 9, 12) = <<87, 65, 86, 69>>
        /\ SubSeq(b, 13, 16) = <<102, 109, 116, 32>>
        /\ ReadLE(b, 16, 4) = 16
        /\ ReadLE(b, 20, 2) = 1
        /\ ReadLE(b, 22, 2) = 1
        /\ ReadLE(b, 24, 4) = wav.sampleRate
        /\ ReadLE(b, 28, 4) = wav.sampleRate * 2
        /\ ReadLE(b, 32, 2) = 2
        /\ ReadLE(b, 34, 2) = 16
        /\ SubSeq(b, 37, 40) = <<100, 97, 116, 97>>
        /\ ReadLE(b, 40, 4) = 2 * N
        /\ lastOp.op = "encodeWAVDefault" => wav.sampleRate = 44100

\* A buffer of three samples, one of them out of range, encoded at 48 kHz.
C14_Witness ==
  /\ wav.done
  /\ lastOp.op = "encodeWAV"
  /\ wav.sampleRate = 48000
  /\ Len(wav.samples) = 3
  /\ wav.samples[1] = -1500
  /\ Len(wav.bytes) = 50

\* The nodes of the effects path from the distortion mix on.
ChainNodes == {"distortionMix", "filter", "compressor", "eq", "reverbDry", "reverb",
               "reverbWet", "reverbMix", "limiter"}

\* The connections of the fixed stage order, with the limiter in the path
\* or routed around.
StageChain(limiterEnabled) ==
  { <<"distortionMix", "filter">>, <<"filter", "compressor">>, <<"compressor", "eq">>,
    <<"eq", "reverbDry">>, <<"eq", "reverb">>, <<"reverb", "reverbWet">>,
    <<"reverbDry", "reverbMix">>, <<"reverbWet", "reverbMix">> }
  \cup (IF limiterEnabled
        THEN {<<"reverbMix", "limiter">>, <<"limiter", "gain">>}
        ELSE {<<"reverbMix", "gain">>})

\* C15: whenever the engine is initialized and patched, the connections
\* leaving the nodes of the effects path are exactly those of the order
\* distortion mix, filter, compressor, EQ, reverb dry / wet, (limiter,)
\* master gain, the limiter being in the path exactly when limiter.enabled.
C15_StageOrder ==
  (eng.isInitialized /\ eng.effectsConnected) =>
     {c \in eng.edges : c[1] \in ChainNodes} = StageChain(eng.params.limiter.enabled)

\* The limiter was switched off and on again and the engine re-patched.
C15_Witness ==
  /\ eng.isInitialized /\ eng.effectsConnected
  /\ ~eng.params.limiter.enabled
  /\ lastOp = Op("setEffectsConnected", TRUE)
  /\ steps >= 3

\* C16: whenever the engine is initialized and compressor.enabled is false,
\* the live compressor's ratio is 1 (pass-through), right after initialize()
\* included.
C16_DisabledCompressorRatio ==
  (eng.isInitialized /\ ~eng.params.compressor.enabled) => eng.node.compRatio = 1

\* C17: whenever the engine is initialized, the reverb wet gain is the mix
\* when the reverb is enabled and 0 otherwise, and the dry gain is 1 - wet,
\* right after initialize() included (gains in percent).
C17_ReverbGains ==
  eng.isInitialized =>
     /\ eng.node.reverbWet = (IF eng.params.reverb.enabled THEN eng.params.reverb.mix ELSE 0)
     /\ eng.node.reverbDry = 100 - eng.node.reverbWet

\* A Tone.Compressor (DynamicsCompressorNode) leaves its input as it is only
\* at ratio 1: at any other ratio it reduces what lies above the threshold
\* and applies the make-up gain that follows from threshold, knee and ratio.
CompressorAbsent(n) == n.compRatio = 1

\* C18: an offline render through the effects with the compressor disabled
\* comes from a chain whose compressor stage is absent (ratio 1:1), whatever
\* ratio and threshold the disabled compressor's parameters hold.
C18_DisabledCompressorAbsent ==
  (render.pc = "done" /\ render.patched /\ ~render.params.compressor.enabled)
     => CompressorAbsent(render.graph.node)

\* The shaping node connectDistortionType() puts on the wet path for a type.
ShaperOf(type) ==
  CASE type = "bitcrush" -> "bitcrusher"
    [] type \in {"tape", "waveshaper", "hardclip"} -> "waveshaper"
    [] OTHER -> "distortion"

\* The shaping nodes oscMix feeds in a graph.
ShapersFed(edges) == {n \in Shapers : <<"oscMix", n>> \in edges}

\* C19: the graph of an offline render through the effects has the shaping
\* stage distortion.type selects on its wet path, and the same parameters
\* with type bitcrush at bitDepth 2 and with type softclip are rendered
\* through different graphs.
C19_RenderSelectsShaper ==
  (render.pc = "done" /\ render.patched) =>
     /\ ShapersFed(render.graph.edges) = {ShaperOf(render.params.distortion.type)}
     /\ renderGraph([render.params EXCEPT !.distortion.type = "bitcrush",
                                          !.distortion.bitDepth = 2], TRUE)
          # renderGraph([render.params EXCEPT !.distortion.type = "softclip",
                                            !.distortion.bitDepth = 2], TRUE)

\* C20: a call that switches the distortion kind, whether updateDistortion
\* with the type alone or the patch the effects window's type selector
\* sends, leaves the stored drive and mix at the values they had before,
\* with the wet gain at mix and the dry gain at 1 - mix (in percent).
C20_KindChangeKeepsDriveMix ==
  ( /\ mode = "patch" /\ lastOp.op = "updateDistortion"
    /\ Has(lastPatch, "type")
    /\ lastPatch.type # pre.params.distortion.type ) =>
     /\ eng.params.distortion.drive = pre.params.distortion.drive
     /\ eng.params.distortion.mix = pre.params.distortion.mix
     /\ eng.hasNodes => /\ eng.node.distortionGain = eng.params.distortion.mix
                        /\ eng.node.dryGain = 100 - eng.params.distortion.mix

\* C21: whenever the engine is initialized, the envelope of the sub
\* oscillator equals the envelope of the primary oscillator, which is the
\* current ampEnvelope (attack, decay, sustain, release).
C21_SubEnvelopeFollows ==
  eng.isInitialized =>
     /\ eng.node.synthEnv = Adsr(eng.params.ampEnvelope)
     /\ eng.node.subEnv = eng.node.synthEnv

\* Pitch intervals in cents: a factor 2^(c/1200) on a frequency is c cents,
\* 0.5 is -1200 and 0.25 is -2400, and factors multiply as cents add.
OctaveCents(octave) == IF octave = -2 THEN -2400 ELSE -1200

\* The frequency trigger() and renderOffline() ramp the sub voice to,
\* subBaseFreq * detuneMultiplier, relative to the main base frequency.
subRampCents(sub) == OctaveCents(sub.octave) + sub.detune

\* The steady-state pitch of the live sub oscillator relative to the main
\* base frequency: Tone's oscillator sounds its frequency signal shifted by
\* its detune signal, which updateSubOscillator() sets.
subVoiceCents(e) == subRampCents(e.params.subOscillator) + e.node.subDetune

\* The same for the sub synth of the offline graph, whose detune nothing
\* sets: it stays at the default of Tone.Synth, 0.
renderSubCents(p) == subRampCents(p.subOscillator) + 0

\* C22: after a trigger with the sub oscillator enabled, the sub voice
\* settles at the main base frequency times 0.5 or 0.25 by the octave, times
\* 2^(detune/1200) once, in the live voice and in the offline render; at
\* octave -2 and detune 0 that is a quarter of the main frequency.
C22_SubFrequency ==
  ( /\ lastOp.op = "trigger" /\ eng.isInitialized /\ eng.hasNodes
    /\ eng.params.subOscillator.enabled ) =>
     LET sub == eng.params.subOscillator IN
     /\ subVoiceCents(eng) = OctaveCents(sub.octave) + sub.detune
     /\ renderSubCents(eng.params) = OctaveCents(sub.octave) + sub.detune
     /\ (sub.octave = -2 /\ sub.detune = 0) => subVoiceCents(eng) = -2400

\* The nodes of the voice graph that have an outgoing connection.
VoiceNodes == {c[1] : c \in VoiceEdges}

\* C23: whenever the engine is initialized, the sub gain is the level when
\* the sub oscillator is enabled and 0 otherwise, the noise gain likewise,
\* the connections of the voice graph are the ones initialize() made, and a
\* call of updateSubOscillator or updateNoiseLayer changes no connection.
C23_LayerGains ==
  /\ eng.isInitialized =>
       /\ eng.node.subGain = (IF eng.params.subOscillator.enabled
                              THEN eng.params.subOscillator.level ELSE 0)
       /\ eng.node.noiseGain = (IF eng.params.noiseLayer.enabled
                                THEN eng.params.noiseLayer.level ELSE 0)
       /\ {c \in eng.edges : c[1] \in VoiceNodes} = VoiceEdges
  /\ (mode = "patch" /\ lastOp.op \in {"updateSubOscillator", "updateNoiseLayer"}) =>
       eng.edges = pre.edges

\* A layer that was silent is enabled on the built graph.
C23_Witness ==
  /\ mode = "patch" /\ lastOp.op = "updateSubOscillator"
  /\ lastPatch = [enabled |-> TRUE]
  /\ eng.isInitialized /\ pre.isInitialized
  /\ pre.node.subGain = 0 /\ eng.node.subGain > 0
  /\ eng.edges = pre.edges

\* A value is a complete parameter aggregate: it holds every section and
\* the master volume, and every section holds every field.
FullParams(x) ==
  /\ DOMAIN x = DOMAIN DEFAULT_PARAMS
  /\ \A section \in Sections : DOMAIN x[section] = DOMAIN DEFAULT_PARAMS[section]

\* The text is no JSON, or its value lacks a name or params.
Rejectable(j) ==
  \/ j.text \in {"malformed", "null", "number"}
  \/ j.text = "object" /\ (j.name = "undefined" \/ j.params = "undefined")

\* C24: importPreset given a text that is no JSON, or whose value lacks name
\* or params, returns null and leaves the preset list and the stored presets
\* as they were, and every preset of the list, which a double click hands
\* to setParams, holds a complete parameter aggregate.
C24_ImportRejects ==
  /\ Rejectable(lib.given) =>
       /\ lib.result = "null"
       /\ lib.presets = lib.before.presets
       /\ lib.stored = lib.before.stored
  /\ \A k \in 1 .. Len(lib.presets) : FullParams(lib.presets[k].params)

\* The shaping nodes whose output is connected to the wet gain.
ShapersFeeding(edges) == {n \in Shapers : <<n, "distortionGain">> \in edges}

StaleInitializePending ==
  awaiting > 0 /\ disposeCount > 0 /\ ~eng.isInitializing /\ ~eng.isInitialized

\* C26: when an initialize() that dispose() overtook resumes, the engine
\* stays uninitialized and without nodes, and no graph is ever built while
\* the engine still holds the nodes of an earlier graph connected to the
\* output.
C26_DisposeEndsLifeCycle ==
  /\ [][(StaleInitializePending /\ awaiting' = awaiting - 1)
           => (~eng'.isInitialized /\ ~eng'.hasNodes)]_vars
  /\ [][buildCount' > buildCount => ~eng.hasNodes]_vars

\* C27: every call of the hook's trigger() that has run to its end fired a
\* voice on the engine, and the hook reports isInitialized only while the
\* engine is initialized.
C27_EveryTriggerFires ==
  /\ hook.fired = hook.completed
  /\ hook.isInitialized => eng.isInitialized

\* C30: isPlaying is true as long as the reset timer of a trigger is still
\* to come due, whatever earlier timers have run.
C30_PlayingUntilLastTimer ==
  (\E t \in hook.timers : t.due > now) => hook.isPlaying

\* C28: the engine's patched flag is true exactly when the patch bay holds
\* the connection from synth-output to effects-input.
C28_FlagFollowsBay == eng.effectsConnected = hasEffectsConnection(bay)

\* The engine that holds the parameters p and the patched flag when its
\* initialize() runs: the history in which every patch came before the graph.
BuiltFrom(p, connected) ==
  initializeBody([NewEngine EXCEPT !.params = p, !.effectsConnected = connected,
                                   !.isInitializing = TRUE])

\* The connections a signal can take: a shaping node that oscMix still feeds
\* but whose output is disconnected carries none.
Routing(edges) == edges \ {<<"oscMix", n>> : n \in Shapers \ ShapersFeeding(edges)}

\* The settings C29 names.
Settings(e) ==
  [ compRatio |-> e.node.compRatio,
    reverbDry |-> e.node.reverbDry, reverbWet |-> e.node.reverbWet,
    subDetune |-> e.node.subDetune, subEnv |-> e.node.subEnv,
    filterRange |-> FloorOctaves(e.node.fenv.octaves),
    bits |-> e.node.bits,
    routing |-> Routing(e.edges) ]

\* C29: the node settings of an initialized engine are those of an engine
\* that received the same parameters and patched flag before initialize():
\* compressor ratio, reverb dry / wet gains, sub-oscillator detune and
\* envelope, filter-envelope range, bit-crusher depth and routing depend on
\* the parameters and the flag alone.
C29_SettingsFromParams ==
  eng.isInitialized =>
     Settings(eng) = Settings(BuiltFrom(eng.params, eng.effectsConnected))
====
